---- MODULE Spec2Model ----
(***************************************************************************)
(* proxy-script: a capability runtime that runs instrumented, untrusted    *)
(* script code.  The instrumented code calls checkpoint functions (_wrap,  *)
(* _call, _func, _klass, _external); the runtime wraps every object that   *)
(* is reachable from the global scope in a mutation-rejecting Proxy and    *)
(* lets a function be used only if it is whitelisted or registered.        *)
(*                                                                         *)
(* Values are tuples of strings: <<"undefined">> is the one primitive,     *)
(* <<o>> is the ordinary object stored at heap[o], and <<tag>> \o v is a   *)
(* Proxy whose target is the value v.                                      *)
(***************************************************************************)
EXTENDS Integers, Sequences, FiniteSets, TLC

VARIABLES
  whitelist,         \* Runtime.whitelist: Set of values
  heap,              \* the ordinary objects: name -> [fn, props, ext, proto, bound]
  phase,             \* "config" (no run yet), "running", "settled"
  unit,              \* the prepared Transpiled Unit that is being run
  functions,         \* Execution._functions: WeakSet of registered callables
  mapObjectToProxy,  \* Execution._mapObjectToProxy: WeakMap value -> Proxy
  externals,         \* Execution.externals: Map name -> value
  exc,               \* the exception in flight inside the instrumented code
  outcome,           \* the promise returned by run
  thrown,            \* the messages of the errors the checkpoints have thrown
  known,             \* the values held by the script's variables
  last,              \* the checkpoint call or script step that ran last
  nOps,              \* script steps taken in this execution
  nHost,             \* whitelist changes made by the host
  blacklist,         \* Runtime.blacklist        (first version of the runtime,
  whitelistAdd,      \* own `add` of the whitelist  in which the policy state
  GLOBALS            \* the Reachability Set        is mutable; see SpecV1)

v1vars == <<blacklist, whitelistAdd, GLOBALS>>
vars == <<whitelist, heap, phase, unit, functions, mapObjectToProxy,
          externals, exc, outcome, thrown, known, last, nOps, nHost,
          blacklist, whitelistAdd, GLOBALS>>

\* ---------------------------------------------------------------- bounds

MaxOps == 3
MaxHostOps == 1

\* ---------------------------------------------------------------- values

Undefined == <<"undefined">>
Raw(o) == <<o>>
IsObject(v) == v # Undefined
IsProxy(v) == Len(v) > 1
Target(p) == Tail(p)
Base(v) == v[Len(v)]

Data(v) == [value |-> v, get |-> Undefined, set |-> Undefined]
Accessor(g, s) == [value |-> Undefined, get |-> g, set |-> s]
NoProps == [n \in {} |-> Data(Undefined)]
Object(fn, props, proto) ==
  [fn |-> fn, props |-> props, ext |-> TRUE, proto |-> proto, bound |-> Undefined]

\* The objects that exist when the module is loaded.  globalThis and what
\* hangs off it, the AsyncFunction constructor (not a property of anything),
\* an object that only a getter returns, and two objects of the host that are
\* not attached to the global scope.
FunctionPrototype == Raw("Function.prototype")
PlainFunction == Object(TRUE, NoProps, FunctionPrototype)
InitHeap ==
  [o \in {"globalThis", "Math", "pow", "isNaN", "fetch", "eval", "Function",
          "AsyncFunction", "Function.prototype", "call", "apply", "bind",
          "toString", "lazyGet", "hidden", "hostObj", "hostFn", "setTimeout"} |->
     CASE o = "globalThis" ->
            Object(FALSE,
                   [n \in {"Math", "isNaN", "fetch", "eval", "Function", "setTimeout",
                           "lazy"} |->
                      IF n = "lazy" THEN Accessor(Raw("lazyGet"), Undefined)
                      ELSE Data(Raw(n))],
                   Undefined)
       [] o = "Math" -> Object(FALSE, [n \in {"pow"} |-> Data(Raw("pow"))], Undefined)
       [] o = "Function" ->
            Object(TRUE, [n \in {"prototype"} |-> Data(FunctionPrototype)],
                   FunctionPrototype)
       [] o = "AsyncFunction" -> Object(TRUE, NoProps, Raw("Function"))
       [] o = "Function.prototype" ->
            Object(TRUE,
                   [n \in {"call", "apply", "bind", "toString", "constructor"} |->
                      IF n = "constructor" THEN Data(Raw("Function")) ELSE Data(Raw(n))],
                   Undefined)
       [] o \in {"hidden", "hostObj"} -> Object(FALSE, NoProps, Undefined)
       [] OTHER -> PlainFunction]

\* What a native getter returns when it is invoked.
GetterResult(g) == IF g = Raw("lazyGet") THEN Raw("hidden") ELSE Undefined

\* typeof v === 'function' (a Proxy has the type of its target)
TypeofFunction(v, h) == IsObject(v) /\ h[Base(v)].fn

SetToSeq(S) ==
  LET RECURSIVE Conv(_)
      Conv(T) == IF T = {} THEN <<>>
                 ELSE LET x == CHOOSE x \in T : TRUE IN <<x>> \o Conv(T \ {x})
  IN Conv(S)

\* ------------------------------------------------------ reachability set

\* getGlobals(obj): add obj and everything found through its own property
\* descriptors.  A getter is added without being called, its setter only when
\* there is a getter; a data property is read.
RECURSIVE getGlobals(_, _, _)
getGlobals(obj, IMM, h) ==
  IF IsObject(obj) /\ ~IsProxy(obj) /\ obj \notin IMM THEN
    LET RECURSIVE Each(_, _)
        Each(names, acc) ==
          IF names = <<>> THEN acc
          ELSE LET d == h[Base(obj)].props[Head(names)]
                   next == IF d.get # Undefined
                           THEN LET a == getGlobals(d.get, acc, h)
                                IN IF d.set # Undefined THEN getGlobals(d.set, a, h) ELSE a
                           ELSE IF d.set # Undefined THEN acc
                           ELSE getGlobals(d.value, acc, h)
               IN Each(Tail(names), next)
    IN Each(SetToSeq(DOMAIN h[Base(obj)].props), IMM \cup {obj})
  ELSE IMM

IMMUTABLE ==
  getGlobals(Raw("AsyncFunction"), getGlobals(Raw("globalThis"), {}, InitHeap), InitHeap)

BLACKLIST == {Raw("eval"), Raw("Function"), Raw("toString"), Raw("AsyncFunction")}

\* Runtime.globals and the default Runtime.whitelist: the own properties of
\* the default global objects (Math), the default global functions (isNaN)
\* and call, apply, bind.
DefaultGlobals == [n \in {"Math", "isNaN"} |-> Raw(n)]
DefaultWhitelist == {Raw("pow"), Raw("isNaN"), Raw("call"), Raw("apply"), Raw("bind")}

\* ------------------------------------------------- property access, calls

\* A checkpoint returns normally (err = "none") or throws.  st is the part of
\* the state it may change: [map, fns, heap]; arg is the operand of the
\* script's operation, obj the object the operation acted on once the operand
\* was wrapped, and ran the functions that were run.
Ok(v, st) ==
  [err |-> "none", ret |-> v, st |-> st, arg |-> Undefined, obj |-> Undefined, ran |-> {}]
Throw(msg, st) ==
  [err |-> msg, ret |-> Undefined, st |-> st, arg |-> Undefined, obj |-> Undefined, ran |-> {}]
Violations == {"blacklist violation", "whitelist violation", "permission denied",
               "apply violation", "construct violation", "set violation",
               "deleteProperty violation", "defineProperty violation",
               "preventExtensions violation", "setPrototypeOf violation"}

\* obj[UNWRAP] ?? obj: the get trap answers UNWRAP with the target when the
\* receiver is a Proxy recorded in this execution; any other object has no
\* such property.
\* A wrap that does not ask its argument for the UNWRAP target
Unwrap_none(obj, st) == obj
Unwrap(obj, st) == IF IsProxy(obj) /\ obj \in DOMAIN st.map THEN Target(obj) ELSE obj

ProxyTags == <<"Proxy", "Proxy2", "Proxy3">>
\* new Proxy(o, handler): an object distinct from every Proxy made before.
FreeTags(o, st) == {i \in 1..Len(ProxyTags) : (<<ProxyTags[i]>> \o o) \notin DOMAIN st.map}
NewProxy(o, st) ==
  IF FreeTags(o, st) = {} THEN <<ProxyTags[Len(ProxyTags)]>> \o o
  ELSE <<ProxyTags[CHOOSE i \in FreeTags(o, st) : \A j \in FreeTags(o, st) : i <= j]>> \o o

\* _mapObjectToProxy.set(obj, proxy); _mapObjectToProxy.set(proxy, proxy)
Record2(o, proxy, st) ==
  Ok(proxy, [st EXCEPT !.map = [x \in DOMAIN @ \cup {o, proxy} |->
                                  IF x \in {o, proxy} THEN proxy ELSE @[x]]])

\* Variants of the checks of _maybeWrap that the properties below must tell
\* from the code: the whitelist consulted before the blacklist, no lookup of
\* the recorded Proxy, and a Proxy for every object.
maybeWrap_whitelistWins(o, skipGlobalCheck, st) ==
  IF o \in BLACKLIST /\ o \notin whitelist THEN Throw("blacklist violation", st)
  ELSE IF TypeofFunction(o, st.heap) /\ o \notin st.fns /\ o \notin whitelist
    THEN Throw("whitelist violation", st)
  ELSE IF o \in DOMAIN st.map THEN Ok(st.map[o], st)
  ELSE IF ~skipGlobalCheck /\ o \notin IMMUTABLE THEN Ok(o, st)
  ELSE Record2(o, NewProxy(o, st), st)
maybeWrap_noLookup(o, skipGlobalCheck, st) ==
  IF o \in BLACKLIST THEN Throw("blacklist violation", st)
  ELSE IF TypeofFunction(o, st.heap) /\ o \notin st.fns /\ o \notin whitelist
    THEN Throw("whitelist violation", st)
  ELSE IF ~skipGlobalCheck /\ o \notin IMMUTABLE THEN Ok(o, st)
  ELSE Record2(o, NewProxy(o, st), st)
maybeWrap_wrapAll(o, skipGlobalCheck, st) ==
  IF o \in BLACKLIST THEN Throw("blacklist violation", st)
  ELSE IF TypeofFunction(o, st.heap) /\ o \notin st.fns /\ o \notin whitelist
    THEN Throw("whitelist violation", st)
  ELSE IF o \in DOMAIN st.map THEN Ok(st.map[o], st)
  ELSE Record2(o, NewProxy(o, st), st)

\* Execution._maybeWrap(obj, skipGlobalCheck), after obj = obj[UNWRAP] ?? obj
maybeWrap_checks(o, skipGlobalCheck, st) ==
  IF o \in BLACKLIST THEN Throw("blacklist violation", st)
  ELSE IF TypeofFunction(o, st.heap) /\ o \notin st.fns /\ o \notin whitelist
    THEN Throw("whitelist violation", st)
  ELSE IF o \in DOMAIN st.map THEN Ok(st.map[o], st)
  ELSE IF ~skipGlobalCheck /\ o \notin IMMUTABLE THEN Ok(o, st)
  ELSE Record2(o, NewProxy(o, st), st)

\* Execution._maybeWrap(obj, skipGlobalCheck)
Execution_maybeWrap(obj, skipGlobalCheck, st) ==
  IF ~IsObject(obj) THEN Ok(obj, st)
  ELSE maybeWrap_checks(Unwrap(obj, st), skipGlobalCheck, st)

\* The rest of a checkpoint after the step that gave a: nothing when a threw.
WrapResult(a) ==
  IF a.err # "none" THEN a ELSE Execution_maybeWrap(a.ret, FALSE, a.st)

\* Execution._handler.get, after member = Reflect.get(target, property):
\* this._maybeWrap(member, true); return member
ReturnMember(member, w) == IF w.err # "none" THEN w ELSE [w EXCEPT !.ret = member]
\* A get trap that returns the member without this._maybeWrap(member, true)
handler_get_unrecorded(m) == m
handler_get(m) ==
  IF m.err # "none" THEN m
  ELSE ReturnMember(m.ret, Execution_maybeWrap(m.ret, TRUE, m.st))

\* v[p] as the engine evaluates it: own property, then the prototype chain;
\* a Proxy answers through its get trap.
\* The value read through a property descriptor: a getter is called, an
\* accessor without getter reads as undefined.
ReadDescriptor(d) ==
  IF d.get # Undefined THEN GetterResult(d.get)
  ELSE IF d.set # Undefined THEN Undefined
  ELSE d.value
RECURSIVE Get(_, _, _)
GetOwn(o, p, st) ==
  IF p \in DOMAIN o.props THEN Ok(ReadDescriptor(o.props[p]), st)
  ELSE IF o.proto = Undefined THEN Ok(Undefined, st)
  ELSE Get(o.proto, p, st)
Get(v, p, st) ==
  IF ~IsObject(v) THEN Throw("TypeError", st)
  ELSE IF IsProxy(v) THEN handler_get(Get(Target(v), p, st))
  ELSE GetOwn(st.heap[Base(v)], p, st)

\* The mutation the script asked of an ordinary object, as Reflect performs it.
PutProperty(o, p, u) ==
  [o EXCEPT !.props = [n \in DOMAIN @ \cup {p} |-> IF n = p THEN Data(u) ELSE @[n]]]
ReflectMutate(op, target, p, u, st) ==
  CASE op \in {"set", "defineProperty"} ->
         IF p \in DOMAIN st.heap[Base(target)].props \/ st.heap[Base(target)].ext
         THEN Ok(Undefined, [st EXCEPT !.heap[Base(target)] = PutProperty(@, p, u)])
         ELSE Throw("TypeError", st)
    [] op = "deleteProperty" ->
         Ok(Undefined, [st EXCEPT !.heap[Base(target)].props =
                          [n \in DOMAIN @ \ {p} |-> @[n]]])
    [] op = "preventExtensions" ->
         Ok(Undefined, [st EXCEPT !.heap[Base(target)].ext = FALSE])
    [] op = "setPrototypeOf" ->
         Ok(Undefined, [st EXCEPT !.heap[Base(target)].proto = Undefined])

\* A handler whose set trap forwards to Reflect.set.
handler_forwardSet(op, target, p, u, st) ==
  IF op = "set" THEN ReflectMutate(op, target, p, u, st)
  ELSE Throw("defineProperty violation", st)

\* Execution._handler: the five mutating traps.
handler(op, target, p, u, st) ==
  CASE op = "defineProperty" -> Throw("defineProperty violation", st)
    [] op = "deleteProperty" -> Throw("deleteProperty violation", st)
    [] op = "preventExtensions" -> Throw("preventExtensions violation", st)
    [] op = "set" -> Throw("set violation", st)
    [] op = "setPrototypeOf" -> Throw("setPrototypeOf violation", st)

\* The functions that run when f is called with the receiver this: a Proxy
\* without apply/construct traps runs its target, a bound function runs the
\* function it was bound to, and call/apply run their receiver.
RECURSIVE Ran(_, _, _)
Ran(f, this, h) ==
  IF ~TypeofFunction(f, h) THEN {}
  ELSE IF IsProxy(f) THEN Ran(Target(f), this, h)
  ELSE IF f \in {Raw("call"), Raw("apply")} THEN {f} \cup Ran(this, Undefined, h)
  ELSE IF h[Base(f)].bound # Undefined THEN {f} \cup Ran(h[Base(f)].bound, Undefined, h)
  ELSE {f}

\* Execution.registerFunction(f)
registerFunction(f, st) ==
  IF TypeofFunction(f, st.heap) THEN Ok(f, [st EXCEPT !.fns = @ \cup {f}]) ELSE Ok(f, st)

\* Execution.registerClass(cls): one entry of the prototype's descriptors
registerClass_entry(proto, key, d, st) ==
  IF TypeofFunction(d.get, st.heap)
  THEN registerFunction(IF TypeofFunction(d.set, st.heap) THEN d.set ELSE d.get,
                        registerFunction(d.get, st).st).st
  ELSE registerFunction(Get(proto, key, st).ret, st).st
RECURSIVE registerClass_entries(_, _, _)
registerClass_entries(proto, keys, st) ==
  IF keys = <<>> THEN st
  ELSE registerClass_entries(proto, Tail(keys),
         registerClass_entry(proto, Head(keys), st.heap[Base(proto)].props[Head(keys)], st))
registerClass_prototype(cls, proto, st) ==
  registerFunction(cls,
    registerClass_entries(proto, SetToSeq(DOMAIN st.heap[Base(proto)].props), st))
\* Execution.registerClass(cls)
registerClass(cls, st) == registerClass_prototype(cls, Get(cls, "prototype", st).ret, st)

ScriptIds == <<"s1", "s2", "s3", "s4">>
FreeIds(h) == {i \in 1..Len(ScriptIds) : ScriptIds[i] \notin DOMAIN h}
NextId(h) == ScriptIds[CHOOSE i \in FreeIds(h) : \A j \in FreeIds(h) : i <= j]
Allocate(h, o, rec) == [x \in DOMAIN h \cup {o} |-> IF x = o THEN rec ELSE h[x]]

\* Execution._callMethod: this._maybeWrap(member).apply(object, args)
callMethod_apply(object, w, ap) ==
  IF ap.err # "none" THEN ap
  ELSE IF ap.ret # Raw("apply") THEN Throw("TypeError", ap.st)
  ELSE [Ok(Undefined, ap.st) EXCEPT !.ran = Ran(w.ret, object, ap.st.heap)]
callMethod_wrapped(object, w) ==
  IF w.err # "none" THEN w ELSE callMethod_apply(object, w, Get(w.ret, "apply", w.st))
\* Execution._callMethod: this.registerFunction(member.apply(object, args))
\* for member === Function.prototype.bind; the bound function is a new object
callMethod_bind(object, b, st) ==
  [registerFunction(Raw(b),
     [st EXCEPT !.heap = Allocate(@, b, [PlainFunction EXCEPT !.bound = object])])
   EXCEPT !.ran = {Raw("bind")}]
callMethod_member(object, member) ==
  IF member.err # "none" THEN member
  ELSE IF member.ret = Raw("bind") THEN
    IF ~TypeofFunction(object, member.st.heap) THEN Throw("TypeError", member.st)
    ELSE callMethod_bind(object, NextId(member.st.heap), member.st)
  ELSE callMethod_wrapped(object, Execution_maybeWrap(member.ret, FALSE, member.st))
\* Execution._callMethod(object, property, ...args)
Execution_callMethod(object, property, st) ==
  callMethod_member(object, Get(object, property, st))

\* Execution._getExternal(name)
Execution_getExternal(name, st) ==
  IF name \in DOMAIN externals THEN Ok(externals[name], st)
  ELSE IF name \in DOMAIN DefaultGlobals THEN Ok(DefaultGlobals[name], st)
  ELSE Throw("undefined", st)

\* ------------------------------------------------------------ source maps

\* Lines that the Function constructor puts before the code it is given.
SOURCEMAP_OFFSET == 2

\* A decoded field that was never assigned (JavaScript null: it counts as 0
\* in a sum and in a comparison).
Null == 0 - 1000
Num(x) == IF x = Null THEN 0 ELSE x

\* new SourceMap(map): every group (generated line) of map.mappings is a
\* sequence of segments, each a sequence of 0, 1, 4 or 5 deltas; an empty
\* group splits into one segment without fields.  The column is summed anew
\* in every group, the other fields over the whole table, and each group is
\* sorted by decreasing starting column.
SegmentsOf(group) == IF group = <<>> THEN << <<>> >> ELSE group
RECURSIVE DecodeGroup(_, _, _, _)
DecodeGroup(segs, col, run, sources) ==
  IF segs = <<>> THEN [out |-> <<>>, run |-> run]
  ELSE LET f == Head(segs)
           n == Len(f)
           run2 == [source |-> IF n \in 2..5 THEN Num(run.source) + f[2] ELSE run.source,
                    line |-> IF n \in 3..5 THEN Num(run.line) + f[3] ELSE run.line,
                    column |-> IF n \in 4..5 THEN Num(run.column) + f[4] ELSE run.column]
           col2 == IF n \in 1..5 THEN Num(col) + f[1] ELSE col
           rest == DecodeGroup(Tail(segs), col2, run2, sources)
       IN [out |-> <<[startColumn |-> col2,
                      source |-> IF run2.source = 0 THEN sources ELSE "undefined",
                      sourceLine |-> run2.line,
                      sourceColumn |-> run2.column]>> \o rest.out,
           run |-> rest.run]
RECURSIVE SortDesc(_)
SortDesc(g) ==
  IF g = <<>> THEN <<>>
  ELSE LET i == CHOOSE i \in 1..Len(g) : \A j \in 1..Len(g) :
                   Num(g[i].startColumn) >= Num(g[j].startColumn)
       IN <<g[i]>> \o SortDesc([k \in 1..(Len(g) - 1) |-> IF k < i THEN g[k] ELSE g[k + 1]])
RECURSIVE DecodeGroups(_, _, _)
DecodeGroups(groups, run, sources) ==
  IF groups = <<>> THEN <<>>
  ELSE LET d == DecodeGroup(SegmentsOf(Head(groups)), Null, run, sources)
       IN <<SortDesc(d.out)>> \o DecodeGroups(Tail(groups), d.run, sources)
SourceMap(map) ==
  DecodeGroups(map.mappings, [source |-> Null, line |-> Null, column |-> Null], map.sources)

\* SourceMap.locate(line, column): the first segment of the line's group that
\* starts at or before the column, or nothing.
NoLocation == [startColumn |-> Null, source |-> "undefined", sourceLine |-> Null,
               sourceColumn |-> Null, found |-> FALSE]
locate(groups, line, column) ==
  LET group == IF line + 1 \in 1..Len(groups) THEN groups[line + 1] ELSE <<>>
      hits == {i \in 1..Len(group) : Num(group[i].startColumn) <= column}
  IN IF hits = {} THEN NoLocation
     ELSE group[CHOOSE i \in hits : \A j \in hits : i <= j] @@ [found |-> TRUE]

\* A line of a stack trace: one that names a position in the code made by
\* the Function constructor ("eval at run ... <anonymous>:L:C"), or other text.
EvalFrame(l, c) == [eval |-> TRUE, source |-> "anonymous", line |-> l, column |-> c]
OtherFrame == [eval |-> FALSE, source |-> "runtime.js", line |-> 1, column |-> 1]

\* SourceMap.patchV8(frame)
patchV8(groups, frame) ==
  IF frame.eval /\ frame.source = "anonymous" THEN
    LET location == locate(groups, frame.line - 1, frame.column)
    IN IF location.found
       THEN [eval |-> TRUE, source |-> location.source,
             line |-> Num(location.sourceLine) + 1, column |-> Num(location.sourceColumn)]
       ELSE frame
  ELSE frame

\* SourceMap.patchStackTrace(trace, map)
patchStackTrace(trace, map) ==
  LET groups == SourceMap(map) IN [i \in 1..Len(trace) |-> patchV8(groups, trace[i])]

\* A patch that puts the empty lines after the mappings instead of before
patchMap_appended(map) ==
  [map EXCEPT !.mappings = @ \o [i \in 1..SOURCEMAP_OFFSET |-> <<>>]]
\* SourceMap.patchMapForFunctionWrapper(map)
patchMapForFunctionWrapper(map) ==
  [map EXCEPT !.mappings = [i \in 1..SOURCEMAP_OFFSET |-> <<>>] \o @]

\* ------------------------------------------------------- Transpiled Units

\* What the transpiler hands over: the code (here the number of inline
\* sourcemap comments at its end) and, optionally, a version 3 map.
NoMap == [version |-> 0, sources |-> "", mappings |-> <<>>]
Map3 == [version |-> 3, sources |-> "unknown",
         mappings |-> << <<>>, << <<0, 0, 0, 0>>, <<4, 0, 0, 4>> >>, << <<2, 0, 1, 0 - 2>> >> >>]
\* big: the inline sourcemap comment would be 2^23 characters or longer.
Units == {[prepared |-> FALSE, inline |-> 0, hasMap |-> hm, big |-> FALSE,
           map |-> IF hm THEN Map3 ELSE NoMap] : hm \in BOOLEAN}

\* Runtime.prepare without the test of the PREPARED mark
prepare_unguarded(transpiled) ==
  IF transpiled.hasMap /\ transpiled.map.version = 3
    THEN [transpiled EXCEPT !.prepared = TRUE,
            !.map = patchMapForFunctionWrapper([@ EXCEPT !.sources = "proxy-script"]),
            !.inline = IF transpiled.big THEN @ ELSE @ + 1]
    ELSE [transpiled EXCEPT !.prepared = TRUE]
\* Runtime.prepare(transpiled): the result is a copy, the argument is unchanged
prepare(transpiled) ==
  IF transpiled.prepared THEN transpiled
  ELSE IF transpiled.hasMap /\ transpiled.map.version = 3
    THEN [transpiled EXCEPT !.prepared = TRUE,
            !.map = patchMapForFunctionWrapper([@ EXCEPT !.sources = "proxy-script"]),
            !.inline = IF transpiled.big THEN @ ELSE @ + 1]
    ELSE [transpiled EXCEPT !.prepared = TRUE]

\* --------------------------------------------------------------- failures

NoExc == [cls |-> "none", msg |-> "", hasStack |-> FALSE, stack |-> <<>>]
\* new Runtime.Error(message), raised inside a checkpoint called by the script
RuntimeError(msg) ==
  [cls |-> "Runtime.Error", msg |-> msg, hasStack |-> TRUE,
   stack |-> <<OtherFrame, EvalFrame(4, 2)>>]
\* an error raised by the engine (a TypeError)
EngineError(msg) ==
  [cls |-> "TypeError", msg |-> msg, hasStack |-> TRUE, stack |-> <<OtherFrame>>]
ErrorOf(err) ==
  IF err \in Violations \cup {"undefined"} THEN RuntimeError(err) ELSE EngineError(err)
\* What a script throws of its own: an Error made at a position of the
\* generated code, or a value without a stack.
ScriptErrors ==
  {[cls |-> "Error", msg |-> "boom", hasStack |-> TRUE, stack |-> <<EvalFrame(4, 6)>>],
   [cls |-> "number", msg |-> "42", hasStack |-> FALSE, stack |-> <<>>]}

NoOutcome == [state |-> "pending", error |-> NoExc, from |-> NoExc]

\* ---------------------------------------------------------- state machine

St == [map |-> mapObjectToProxy, fns |-> functions, heap |-> heap]
Step(op, name, r) ==
  [op |-> op, name |-> name, arg |-> r.arg, obj |-> r.obj, ret |-> r.ret, err |-> r.err,
   ran |-> r.ran]
Host(op, f) == Step(op, "", [Ok(Undefined, St) EXCEPT !.arg = f])
Plain(op, name) == Step(op, name, Ok(Undefined, St))

\* class MyPromise extends Promise, made by the Execution constructor
MyPromiseHeap(h) ==
  [o \in DOMAIN h \cup {"MyPromise", "MyPromise.prototype"} |->
     CASE o = "MyPromise" ->
            Object(TRUE, [n \in {"prototype"} |-> Data(Raw("MyPromise.prototype"))],
                   FunctionPrototype)
       [] o = "MyPromise.prototype" ->
            Object(FALSE, [n \in {"constructor"} |-> Data(Raw("MyPromise"))], Undefined)
       [] OTHER -> h[o]]

\* new Runtime(): nothing has run yet.
Constructed ==
  /\ whitelist = DefaultWhitelist
  /\ heap = InitHeap
  /\ phase = "config"
  /\ functions = {}
  /\ mapObjectToProxy = [v \in {} |-> Undefined]
  /\ externals = [n \in {} |-> Undefined]
  /\ exc = NoExc
  /\ outcome = NoOutcome
  /\ thrown = {}
  /\ known = {}
  /\ last = Plain("none", "")
  /\ nOps = 0
  /\ nHost = 0
Init ==
  /\ Constructed
  /\ unit \in Units
  /\ blacklist = {}
  /\ whitelistAdd = "native"
  /\ GLOBALS = {}

\* The host changes runtime.whitelist (a plain Set); it can do so whenever
\* the script is not executing: before the run, or while the script awaits.
HostIdle == phase = "config" \/ (phase = "running" /\ exc = NoExc)
HostCallables == {Raw("eval"), Raw("hostFn"), Raw("pow"), Raw("bind")}
HostWhitelistAdd(f) ==
  /\ HostIdle /\ nHost < MaxHostOps /\ f \notin whitelist
  /\ whitelist' = whitelist \cup {f}
  /\ nHost' = nHost + 1
  /\ last' = Host("whitelist.add", f)
  /\ UNCHANGED <<heap, phase, unit, functions, mapObjectToProxy, externals, exc,
                 outcome, thrown, known, nOps>>
  /\ UNCHANGED v1vars
HostWhitelistDelete(f) ==
  /\ HostIdle /\ nHost < MaxHostOps /\ f \in whitelist
  /\ whitelist' = whitelist \ {f}
  /\ nHost' = nHost + 1
  /\ last' = Host("whitelist.delete", f)
  /\ UNCHANGED <<heap, phase, unit, functions, mapObjectToProxy, externals, exc,
                 outcome, thrown, known, nOps>>
  /\ UNCHANGED v1vars

\* Runtime.run(transpiled, thisArg, args): prepare, new Execution(this),
\* execution.run up to the first statement of the script.
ArgChoices ==
  {[n \in {} |-> Undefined],
   [n \in {"h", "hf"} |-> IF n = "h" THEN Raw("hostObj") ELSE Raw("hostFn")],
   [n \in {"h", "hf"} |-> IF n = "h" THEN Raw("globalThis") ELSE Raw("eval")]}
Execution_constructor(reg, args) ==
  /\ heap' = reg.st.heap
  /\ functions' = reg.st.fns
  /\ mapObjectToProxy' = reg.st.map
  /\ externals' = [n \in {"Promise"} \cup DOMAIN args |->
                     IF n \in DOMAIN args THEN args[n] ELSE reg.ret]
Run(args) ==
  /\ phase = "config"
  /\ Execution_constructor(
       registerClass(Raw("MyPromise"), [St EXCEPT !.heap = MyPromiseHeap(@)]), args)
  /\ last' = Plain("run", "")
  /\ unit' = prepare(unit)
  /\ phase' = "running"
  /\ UNCHANGED <<whitelist, exc, outcome, thrown, known, nOps, nHost>>
  /\ UNCHANGED v1vars

\* The script takes a step: the checkpoint result r becomes the state, a
\* thrown error is in flight, a returned object is kept in a variable.
Running == phase = "running" /\ exc = NoExc /\ nOps < MaxOps
Commit(op, name, r) ==
  /\ heap' = r.st.heap
  /\ functions' = r.st.fns
  /\ mapObjectToProxy' = r.st.map
  /\ exc' = IF r.err = "none" THEN NoExc ELSE ErrorOf(r.err)
  /\ thrown' = IF r.err = "none" THEN thrown ELSE thrown \cup {r.err}
  /\ known' = IF r.err = "none" /\ IsObject(r.ret) THEN known \cup {r.ret} ELSE known
  /\ last' = Step(op, name, r)
  /\ nOps' = nOps + 1
  /\ UNCHANGED <<whitelist, phase, unit, externals, outcome, nHost>>
  /\ UNCHANGED v1vars
\* The wrap of the operand x gave a; the operation then gives r.
On(a, r) == [r EXCEPT !.arg = a.arg, !.obj = a.ret]
\* _w(x) for the operand x of an operation
WrapOperand(v, st) == [Execution_maybeWrap(v, FALSE, st) EXCEPT !.arg = v]

\* _w(_e('NAME')): a free identifier
ExternalNames == {"Math", "isNaN", "Promise", "h", "hf", "fetch"}
External_wrap(e) == IF e.err # "none" THEN e ELSE [WrapResult(e) EXCEPT !.arg = e.ret, !.obj = e.ret]
ScriptExternal(name) ==
  /\ Running
  /\ Commit("external", name, External_wrap(Execution_getExternal(name, St)))

\* _w(x): an expression whose value is that of a variable
ScriptWrap(v) ==
  /\ Running
  /\ Commit("wrap", "", [WrapOperand(v, St) EXCEPT !.obj = v])

\* _w({}): an object literal
ScriptLiteral ==
  /\ Running /\ FreeIds(heap) # {}
  /\ Commit("literal", "",
       [Execution_maybeWrap(Raw(NextId(heap)), FALSE,
          [St EXCEPT !.heap = Allocate(@, NextId(heap), Object(FALSE, NoProps, Undefined))])
        EXCEPT !.arg = Raw(NextId(heap)), !.obj = Raw(NextId(heap))])

\* _f(function ...): function expressions, arrow functions, function
\* declarations and object methods are all turned into a registered lambda.
FunctionNodes == {"FunctionExpression", "ArrowFunctionExpression",
                  "FunctionDeclaration", "ObjectMethod"}
ScriptFunction(node) ==
  /\ Running /\ FreeIds(heap) # {}
  /\ Commit("func", node,
       [registerFunction(Raw(NextId(heap)),
          [St EXCEPT !.heap = Allocate(@, NextId(heap), PlainFunction)])
        EXCEPT !.arg = Raw(NextId(heap)), !.obj = Raw(NextId(heap))])

\* class C { m() {} get a() {} set a(v) {} set w(v) {} static sm() {} }
ClassHeap(h) ==
  [o \in DOMAIN h \cup {"C", "C.prototype", "C.m", "C.get_a", "C.set_a", "C.set_w", "C.sm"} |->
     CASE o = "C" ->
            Object(TRUE, [n \in {"prototype", "sm"} |->
                            IF n = "sm" THEN Data(Raw("C.sm")) ELSE Data(Raw("C.prototype"))],
                   FunctionPrototype)
       [] o = "C.prototype" ->
            Object(FALSE,
                   [n \in {"constructor", "m", "a", "w"} |->
                      CASE n = "constructor" -> Data(Raw("C"))
                        [] n = "m" -> Data(Raw("C.m"))
                        [] n = "a" -> Accessor(Raw("C.get_a"), Raw("C.set_a"))
                        [] n = "w" -> Accessor(Undefined, Raw("C.set_w"))],
                   Undefined)
       [] o \in {"C.m", "C.get_a", "C.set_a", "C.set_w", "C.sm"} -> PlainFunction
       [] OTHER -> h[o]]

\* A class declaration is followed by _k(C); a class expression is an
\* expression like any other: _w(class { ... }).
ClassNodes == {"ClassDeclaration", "ClassExpression"}
Class_checkpoint(node, st) ==
  IF node = "ClassDeclaration" THEN registerClass(Raw("C"), st)
  ELSE Execution_maybeWrap(Raw("C"), FALSE, st)
ScriptClass(node) ==
  /\ Running /\ "C" \notin DOMAIN heap
  /\ Commit("class", node,
       [Class_checkpoint(node, [St EXCEPT !.heap = ClassHeap(@)]) EXCEPT !.arg = Raw("C"), !.obj = Raw("C")])

\* _w(_w(x).p): a property read
GetNames == {"pow", "constructor", "bind", "call", "lazy", "eval", "sm", "prototype", "m"}
Get_wrapped(a, p) ==
  IF a.err # "none" THEN a ELSE On(a, WrapResult(Get(a.ret, p, a.st)))
ScriptGet(v, p) ==
  /\ Running
  /\ Commit("get", p, Get_wrapped(WrapOperand(v, St), p))

\* _w(x).p = undefined, delete _w(x).p, and the Object/Reflect functions
\* that define a property, prevent extensions or set the prototype of _w(x):
\* a Proxy answers with its trap, any other object is changed.
MutatingOps == {"set", "deleteProperty", "defineProperty", "preventExtensions",
                "setPrototypeOf"}
MutateNames == {"pow", "x"}
Mutate_wrapped(op, a, p) ==
  IF a.err # "none" THEN a
  ELSE IF IsProxy(a.ret) THEN On(a, handler(op, Target(a.ret), p, Undefined, a.st))
  ELSE On(a, ReflectMutate(op, a.ret, p, Undefined, a.st))
ScriptMutate(op, v, p) ==
  /\ Running
  /\ Commit(op, p, Mutate_wrapped(op, WrapOperand(v, St), p))

\* _w(_w(x)()) and _w(new (_w(x))()): the callee is an expression like any
\* other; calling a Proxy without apply/construct traps runs its target.
CallOps == {"call", "construct"}
Apply_wrapped(a) ==
  IF a.err # "none" THEN a
  ELSE IF ~TypeofFunction(a.ret, a.st.heap) THEN On(a, Throw("TypeError", a.st))
  ELSE On(a, [Ok(Undefined, a.st) EXCEPT !.ran = Ran(a.ret, Undefined, a.st.heap)])
ScriptApply(mode, v) ==
  /\ Running
  /\ Commit(mode, "", Apply_wrapped(WrapOperand(v, St)))

\* _w(_c(_w(x), 'p', [])): a member call
CallNames == {"pow", "bind", "call", "sm", "m"}
KeepRan(c, r) == [r EXCEPT !.ran = c.ran]
Call_result(c) == IF c.err # "none" THEN c ELSE KeepRan(c, WrapResult(c))
\* A member call whose OBJECT is used as it is, whatever its wrap gave
Call_unchecked(a, p) ==
  On([a EXCEPT !.ret = a.arg], Call_result(Execution_callMethod(a.arg, p, a.st)))
Call_wrapped(a, p) ==
  IF a.err # "none" THEN a ELSE On(a, Call_result(Execution_callMethod(a.ret, p, a.st)))
ScriptCallMethod(v, p) ==
  /\ Running /\ FreeIds(heap) # {}
  /\ Commit("callMethod", p, Call_wrapped(WrapOperand(v, St), p))

\* throw e: a failure of the script's own
ScriptThrow(e) ==
  /\ Running
  /\ exc' = e
  /\ last' = Plain("throw", e.msg)
  /\ nOps' = nOps + 1
  /\ UNCHANGED <<whitelist, heap, phase, unit, functions, mapObjectToProxy, externals,
                 outcome, thrown, known, nHost>>
  /\ UNCHANGED v1vars

\* try { ... } catch (e) { }: the rewriter leaves try statements alone, so
\* the script's handler receives whatever was thrown inside the block.
ScriptCatch ==
  /\ phase = "running" /\ exc # NoExc
  /\ exc' = NoExc
  /\ last' = Plain("catch", exc.msg)
  /\ UNCHANGED <<whitelist, heap, phase, unit, functions, mapObjectToProxy, externals,
                 outcome, thrown, known, nOps, nHost>>
  /\ UNCHANGED v1vars

\* The script's body completes: `return await f.call(...)` resolves.
ScriptReturn ==
  /\ phase = "running" /\ exc = NoExc
  /\ phase' = "settled"
  /\ outcome' = [state |-> "resolved", error |-> NoExc, from |-> NoExc]
  /\ last' = Plain("return", "")
  /\ UNCHANGED <<whitelist, heap, unit, functions, mapObjectToProxy, externals, exc,
                 thrown, known, nOps, nHost>>
  /\ UNCHANGED v1vars

\* The catch clause of Execution.run: an error that has a string stack gets
\* the stack patched with transpiled.map, then the error is thrown again.
\* Reading the mappings of a unit without a map is itself a TypeError, which
\* is then what leaves the catch clause.
Execution_run_catch(e, transpiled) ==
  IF ~e.hasStack THEN e
  ELSE IF transpiled.hasMap
    THEN [e EXCEPT !.stack = patchStackTrace(@, transpiled.map)]
    ELSE EngineError("Cannot read properties of undefined (reading 'mappings')")
Propagate ==
  /\ phase = "running" /\ exc # NoExc
  /\ phase' = "settled"
  /\ outcome' = [state |-> "rejected", from |-> exc, error |-> Execution_run_catch(exc, unit)]
  /\ exc' = NoExc
  /\ last' = Plain("reject", exc.msg)
  /\ UNCHANGED <<whitelist, heap, unit, functions, mapObjectToProxy, externals,
                 thrown, known, nOps, nHost>>
  /\ UNCHANGED v1vars

Next ==
  \/ \E f \in HostCallables : HostWhitelistAdd(f)
  \/ \E f \in HostCallables : HostWhitelistDelete(f)
  \/ \E args \in ArgChoices : Run(args)
  \/ \E name \in ExternalNames : ScriptExternal(name)
  \/ \E v \in known : ScriptWrap(v)
  \/ ScriptLiteral
  \/ \E node \in FunctionNodes : ScriptFunction(node)
  \/ \E node \in ClassNodes : ScriptClass(node)
  \/ \E v \in known, p \in GetNames : ScriptGet(v, p)
  \/ \E op \in MutatingOps, v \in known, p \in MutateNames : ScriptMutate(op, v, p)
  \/ \E mode \in CallOps, v \in known : ScriptApply(mode, v)
  \/ \E v \in known, p \in CallNames : ScriptCallMethod(v, p)
  \/ \E e \in ScriptErrors : ScriptThrow(e)
  \/ ScriptCatch
  \/ ScriptReturn
  \/ Propagate

Spec == Init /\ [][Next]_vars

\* ------------------------------------- the runtime with recorded externals
\* Runtime.run(transpiled, externals) of the version in which the transpiler
\* records the free identifiers of the script (transpiled.externals), the
\* externals become parameters of the generated function, and a registered
\* function is a Proxy that answers the ALLOWED key.

ExternalSets == {{}, {"h"}, {"h", "hf"}}
UnitsB == {u @@ [externals |-> E] : u \in Units, E \in ExternalSets}
InitB ==
  /\ Constructed
  /\ unit \in UnitsB
  /\ blacklist = {}
  /\ whitelistAdd = "native"
  /\ GLOBALS = {}

BLACKLIST_B == BLACKLIST \cup {Raw("setTimeout")}
Allowed(obj) == IsProxy(obj) /\ obj[1] = "fn"

\* Runtime.fn(f)
Runtime_fn(f, st) == IF Allowed(f) THEN Ok(f, st) ELSE Ok(<<"fn">> \o f, st)

\* Runtime._maybeWrap(obj, mapObjectToProxy, isImmutableProperty), after the
\* lookup in the map and obj = obj[UNWRAP] ?? obj
maybeWrapB_checks(o, isImmutableProperty, st) ==
  IF o \in BLACKLIST_B THEN Throw("blacklist violation", st)
  ELSE IF TypeofFunction(o, st.heap) /\ ~Allowed(o) /\ o \notin whitelist
    THEN Throw("permission denied", st)
  ELSE IF ~isImmutableProperty /\ o \notin IMMUTABLE THEN Ok(o, st)
  ELSE Record2(o, NewProxy(o, st), st)
\* Runtime._maybeWrap(obj, mapObjectToProxy, isImmutableProperty)
Runtime_maybeWrap(obj, isImmutableProperty, st) ==
  IF ~IsObject(obj) THEN Ok(obj, st)
  ELSE IF obj \in DOMAIN st.map THEN Ok(st.map[obj], st)
  ELSE maybeWrapB_checks(Unwrap(obj, st), isImmutableProperty, st)

\* The check of the externals left out: every name is taken to be provided.
MissingExternals_unchecked(transpiled, args) == {n \in transpiled.externals : FALSE}
\* The names of transpiled.externals that the externals object lacks.
MissingExternals(transpiled, args) == {n \in transpiled.externals : n \notin DOMAIN args}

\* Runtime.run(transpiled, externals): _prepare, the check of the externals,
\* then the generated function is made and called.
NotProvided ==
  [cls |-> "Runtime.Error", msg |-> "not provided", hasStack |-> TRUE, stack |-> <<OtherFrame>>]
RunB(args) ==
  /\ phase = "config"
  /\ unit' = prepare(unit)
  /\ externals' = args
  /\ IF MissingExternals(unit, args) # {}
     THEN /\ phase' = "settled"
          /\ outcome' = [state |-> "rejected", from |-> NoExc, error |-> NotProvided]
     ELSE /\ phase' = "running"
          /\ outcome' = outcome
  /\ last' = Plain("run", "")
  /\ UNCHANGED <<whitelist, heap, functions, mapObjectToProxy, exc, thrown, known,
                 nOps, nHost>>
  /\ UNCHANGED v1vars

\* _w(NAME) for a free identifier: a parameter of the generated function if
\* the externals have the name, else the global of that name, else a
\* ReferenceError.
Identifier(name, st) ==
  IF name \in DOMAIN externals THEN Ok(externals[name], st)
  ELSE IF name \in DOMAIN DefaultGlobals THEN Ok(DefaultGlobals[name], st)
  ELSE Throw("ReferenceError", st)
Identifier_wrap(e) ==
  IF e.err # "none" THEN e
  ELSE [Runtime_maybeWrap(e.ret, FALSE, e.st) EXCEPT !.arg = e.ret, !.obj = e.ret]
ScriptIdentifierB(name) ==
  /\ Running
  /\ name \in unit.externals \cup DOMAIN DefaultGlobals
  /\ Commit("external", name, Identifier_wrap(Identifier(name, St)))

\* _w(x)
ScriptWrapB(v) ==
  /\ Running
  /\ Commit("wrap", "", [Runtime_maybeWrap(v, FALSE, St) EXCEPT !.arg = v, !.obj = v])

\* _f(function ...)
ScriptFunctionB ==
  /\ Running /\ FreeIds(heap) # {}
  /\ Commit("func", "",
       [Runtime_fn(Raw(NextId(heap)),
          [St EXCEPT !.heap = Allocate(@, NextId(heap), PlainFunction)])
        EXCEPT !.arg = Raw(NextId(heap)), !.obj = Raw(NextId(heap))])

NextB ==
  \/ \E f \in HostCallables : HostWhitelistAdd(f)
  \/ \E f \in HostCallables : HostWhitelistDelete(f)
  \/ \E args \in ArgChoices : RunB(args)
  \/ \E name \in ExternalNames : ScriptIdentifierB(name)
  \/ \E v \in known : ScriptWrapB(v)
  \/ ScriptFunctionB
  \/ \E e \in ScriptErrors : ScriptThrow(e)
  \/ ScriptCatch
  \/ ScriptReturn
  \/ Propagate

SpecB == InitB /\ [][NextB]_vars

\* ------------------------------------------- the first version of the runtime
\* The Runtime whose whitelist, blacklist and Wrapper Registry belong to the
\* Runtime object, whose wrappers check the whitelist in apply and construct
\* traps, and whose run closes the whitelist.  The script's free identifiers
\* are parameters of the generated function or globals.

\* getGlobals(obj, key): every own property is read, except the getters of
\* an object found under the key 'prototype'.
RECURSIVE getGlobalsV1(_, _, _, _)
RECURSIVE getGlobalsV1_each(_, _, _, _, _)
getGlobalsV1_each(obj, key, names, G, h) ==
  IF names = <<>> THEN G
  ELSE getGlobalsV1_each(obj, key, Tail(names),
         IF key # "prototype" \/ h[Base(obj)].props[Head(names)].get = Undefined
         THEN getGlobalsV1(ReadDescriptor(h[Base(obj)].props[Head(names)]), Head(names), G, h)
         ELSE G,
         h)
getGlobalsV1(obj, key, G, h) ==
  IF IsObject(obj) /\ ~IsProxy(obj) /\ obj \notin G
  THEN getGlobalsV1_each(obj, key, SetToSeq(DOMAIN h[Base(obj)].props), G \cup {obj}, h)
  ELSE G
GLOBALS_V1 ==
  getGlobalsV1(Raw("AsyncFunction"), "", getGlobalsV1(Raw("globalThis"), "", {}, InitHeap),
               InitHeap)

InitV1 ==
  /\ Constructed
  /\ unit \in Units
  /\ blacklist = {}
  /\ whitelistAdd = "native"
  /\ GLOBALS = GLOBALS_V1

\* The host calls runtime.whitelist.add(f) and runtime.whitelist.delete(f),
\* before, during (while the script awaits) or after the run.
HostIdleV1 == exc = NoExc
WhitelistAddV1(f) ==
  /\ HostIdleV1 /\ nHost < MaxHostOps
  /\ IF whitelistAdd = "native"
     THEN /\ whitelist' = whitelist \cup {f}
          /\ last' = Host("whitelist.add", f)
     ELSE /\ whitelist' = whitelist
          /\ last' = Step("whitelist.add", "",
                          [Throw("whitelist modification after run", St) EXCEPT !.arg = f])
  /\ nHost' = nHost + 1
  /\ UNCHANGED <<heap, phase, unit, functions, mapObjectToProxy, externals, exc,
                 outcome, thrown, known, nOps, blacklist, whitelistAdd, GLOBALS>>
WhitelistDeleteV1(f) ==
  /\ HostIdleV1 /\ nHost < MaxHostOps
  /\ whitelist' = whitelist \ {f}
  /\ last' = Host("whitelist.delete", f)
  /\ nHost' = nHost + 1
  /\ UNCHANGED <<heap, phase, unit, functions, mapObjectToProxy, externals, exc,
                 outcome, thrown, known, nOps, blacklist, whitelistAdd, GLOBALS>>

\* Runtime.run(transpiled, thisArg, args) up to the first statement of the
\* script: whitelist.add is replaced by a function that throws, the blacklist
\* gets Function, AsyncFunction and eval, the unit is prepared.
RunV1(args) ==
  /\ phase = "config"
  /\ whitelistAdd' = "throws"
  /\ blacklist' = blacklist \cup {Raw("Function"), Raw("AsyncFunction"), Raw("eval")}
  /\ unit' = prepare(unit)
  /\ externals' = args
  /\ phase' = "running"
  /\ last' = Plain("run", "")
  /\ UNCHANGED <<whitelist, heap, functions, mapObjectToProxy, exc, outcome, thrown,
                 known, nOps, nHost, GLOBALS>>

StV1 == [map |-> mapObjectToProxy, fns |-> functions, heap |-> heap, globals |-> GLOBALS]
CommitV1(op, name, r) ==
  /\ heap' = r.st.heap
  /\ functions' = r.st.fns
  /\ mapObjectToProxy' = r.st.map
  /\ GLOBALS' = r.st.globals
  /\ exc' = IF r.err = "none" THEN NoExc ELSE ErrorOf(r.err)
  /\ thrown' = IF r.err = "none" THEN thrown ELSE thrown \cup {r.err}
  /\ known' = IF r.err = "none" /\ IsObject(r.ret) THEN known \cup {r.ret} ELSE known
  /\ last' = Step(op, name, r)
  /\ nOps' = nOps + 1
  /\ UNCHANGED <<whitelist, phase, unit, externals, outcome, nHost, blacklist, whitelistAdd>>

\* Runtime.maybeWrap(obj)
maybeWrap(obj, st) ==
  IF ~IsObject(obj) THEN Ok(obj, st)
  ELSE IF obj \in blacklist THEN Throw("blacklist violation", st)
  ELSE IF obj \notin st.globals THEN Ok(obj, st)
  ELSE IF obj \in DOMAIN st.map THEN Ok(st.map[obj], st)
  ELSE Record2(obj, NewProxy(obj, st), st)
WrapResultV1(a) == IF a.err # "none" THEN a ELSE maybeWrap(a.ret, a.st)
WrapOperandV1(v, st) == [maybeWrap(v, st) EXCEPT !.arg = v]

\* _w(NAME) for a free identifier: a parameter of the generated function or
\* a property of globalThis.
GlobalNames == {"Math", "isNaN", "eval"}
IdentifierV1(name, st) ==
  IF name \in DOMAIN externals THEN Ok(externals[name], st)
  ELSE IF name \in DOMAIN st.heap["globalThis"].props
    THEN Ok(ReadDescriptor(st.heap["globalThis"].props[name]), st)
  ELSE Throw("ReferenceError", st)
IdentifierV1_wrap(e) ==
  IF e.err # "none" THEN e ELSE [WrapResultV1(e) EXCEPT !.arg = e.ret, !.obj = e.ret]
ScriptIdentifierV1(name) ==
  /\ Running
  /\ CommitV1("external", name, IdentifierV1_wrap(IdentifierV1(name, StV1)))

\* Runtime.handler.get: a member that is an object joins GLOBALS
handlerV1_get(m) ==
  IF m.err # "none" \/ ~IsObject(m.ret) THEN m
  ELSE [m EXCEPT !.st.globals = @ \cup {m.ret}]
\* _w(_w(x).p)
GetV1(v, p, st) ==
  IF IsProxy(v) THEN handlerV1_get(GetOwn(st.heap[Base(v)], p, st))
  ELSE GetOwn(st.heap[Base(v)], p, st)
GetV1_wrapped(a, p) ==
  IF a.err # "none" THEN a ELSE On(a, WrapResultV1(GetV1(a.ret, p, a.st)))
ScriptGetV1(v, p) ==
  /\ Running
  /\ CommitV1("get", p, GetV1_wrapped(WrapOperandV1(v, StV1), p))

\* Runtime.assertAccess(obj, type)
assertAccess(obj, type, st) ==
  IF obj \in st.globals /\ obj \notin whitelist
  THEN Throw(IF type = "call" THEN "apply violation" ELSE "construct violation", st)
  ELSE Ok(Undefined, st)
\* _w(_w(x)()) and _w(new (_w(x))()): the apply and construct traps of a
\* wrapper; any other function is simply called.
ApplyV1(mode, f, st) ==
  IF ~TypeofFunction(f, st.heap) THEN Throw("TypeError", st)
  ELSE IF IsProxy(f)
    THEN [assertAccess(Target(f), mode, st) EXCEPT !.ran = Ran(f, Undefined, st.heap)]
  ELSE [Ok(Undefined, st) EXCEPT !.ran = Ran(f, Undefined, st.heap)]
ApplyV1_checked(r) == IF r.err # "none" THEN [r EXCEPT !.ran = {}] ELSE r
ApplyV1_wrapped(mode, a) ==
  IF a.err # "none" THEN a ELSE On(a, ApplyV1_checked(ApplyV1(mode, a.ret, a.st)))
ScriptApplyV1(mode, v) ==
  /\ Running
  /\ CommitV1(mode, "", ApplyV1_wrapped(mode, WrapOperandV1(v, StV1)))

NextV1 ==
  \/ \E f \in HostCallables : WhitelistAddV1(f)
  \/ \E f \in HostCallables : WhitelistDeleteV1(f)
  \/ \E args \in ArgChoices : RunV1(args)
  \/ \E name \in GlobalNames \cup {"h", "hf"} : ScriptIdentifierV1(name)
  \/ \E v \in known, p \in GetNames : ScriptGetV1(v, p)
  \/ \E mode \in CallOps, v \in known : ScriptApplyV1(mode, v)
  \/ \E e \in ScriptErrors : ScriptThrow(e)
  \/ ScriptCatch
  \/ ScriptReturn
  \/ Propagate

SpecV1 == InitV1 /\ [][NextV1]_vars

\* ------------------------------------------------------------- properties

ViolationOf(op) ==
  CASE op = "set" -> "set violation"
    [] op = "deleteProperty" -> "deleteProperty violation"
    [] op = "defineProperty" -> "defineProperty violation"
    [] op = "preventExtensions" -> "preventExtensions violation"
    [] op = "setPrototypeOf" -> "setPrototypeOf violation"

\* C1: whenever the script sets, deletes or defines a property of a wrapper,
\* prevents its extension or changes its prototype, the operation fails with
\* the violation named after it and no object of the heap has changed,
\* whatever the property name and whatever the script did before.
C1_MutationRejected ==
  [][(last'.op \in MutatingOps /\ IsProxy(last'.obj))
       => (last'.err = ViolationOf(last'.op) /\ heap' = heap)]_vars
\* A delete of an existing property and a set of a new one have been refused
\* on the wrapper of Math as the third operation of a script.
C1_Witness ==
  /\ last.op \in {"deleteProperty", "set"}
  /\ last.obj = <<"Proxy", "Math">>
  /\ last.name = (IF last.op = "set" THEN "x" ELSE "pow")
  /\ last.err = ViolationOf(last.op)
  /\ nOps = MaxOps

\* C3: a blacklisted value is never handed to the script and never run: wrap
\* refuses it with a blacklist violation in every state, whether or not it
\* is on the whitelist or registered, so no variable of the script holds it
\* (or a wrapper of it) and no call runs it.
C3_BlacklistWins ==
  /\ \A b \in BLACKLIST :
       /\ Execution_maybeWrap(b, FALSE, St).err = "blacklist violation"
       /\ Execution_maybeWrap(b, TRUE, [St EXCEPT !.fns = @ \cup {b}]).err
            = "blacklist violation"
  /\ \A v \in known : Raw(Base(v)) \notin BLACKLIST
  /\ last.ran \cap BLACKLIST = {}
  /\ (last.op \in {"external", "wrap"} /\ last.obj \in BLACKLIST)
       => last.err = "blacklist violation"
\* The host has put eval on the whitelist and handed it to the script, whose
\* reference to it was refused.
C3_Witness ==
  /\ Raw("eval") \in whitelist
  /\ last.op = "external" /\ last.obj = Raw("eval")
  /\ last.err = "blacklist violation"

\* C4: no step replaces or drops an entry of the Wrapper Registry, and a wrap
\* of an object that has an entry returns the wrapper recorded in it.
C4_WrapperIdentity ==
  [][/\ \A v \in DOMAIN mapObjectToProxy :
          /\ v \in DOMAIN mapObjectToProxy'
          /\ mapObjectToProxy'[v] = mapObjectToProxy[v]
     /\ (/\ last'.op \in {"external", "wrap"} /\ last'.err = "none"
         /\ Unwrap(last'.obj, St) \in DOMAIN mapObjectToProxy)
          => last'.ret = mapObjectToProxy[Unwrap(last'.obj, St)]]_vars
\* Math is wrapped again after other wrappers have been recorded, and the
\* first wrapper comes back.
C4_Witness ==
  /\ last.op = "external" /\ last.obj = Raw("Math") /\ last.ret = <<"Proxy", "Math">>
  /\ nOps = MaxOps
  /\ <<"Proxy", "pow">> \in DOMAIN mapObjectToProxy

WrapOps == {"external", "wrap", "literal", "class"}
ScriptAuthored ==
  {Raw(o) : o \in {x \in DOMAIN heap \ (DOMAIN InitHeap \cup {"MyPromise", "MyPromise.prototype"}) :
                     heap[x].fn /\ heap[x].bound = Undefined}}
Reachable(v) == TypeofFunction(v, heap) /\ Unwrap(v, St) \in IMMUTABLE
\* C2 as stated: a call or construction of a reachable callable succeeds
\* while the callable is on the whitelist and is refused with a whitelist
\* violation while it is not, and no reachable callable that is off the
\* whitelist runs, whether called directly, as a method or through call/apply.
C2_WhitelistGating ==
  /\ (last.op \in CallOps /\ Reachable(last.arg) /\ Unwrap(last.arg, St) \in whitelist)
       => last.err = "none"
  /\ (last.op \in CallOps /\ Reachable(last.arg) /\ Unwrap(last.arg, St) \notin whitelist)
       => last.err \in {"whitelist violation", "blacklist violation"}
  /\ \A f \in last.ran : f \in IMMUTABLE => f \in whitelist

\* C7 as stated: once a checkpoint has raised a policy violation the run does
\* not resolve, and a violation that leaves the script rejects the run with
\* a Runtime.Error.
C7_ViolationTerminal ==
  /\ outcome.state = "resolved" => thrown \cap Violations = {}
  /\ (outcome.state = "rejected" /\ outcome.from.cls = "Runtime.Error")
       => outcome.error.cls = "Runtime.Error"

\* C8 as stated: a failure of the script's own rejects the run with the same
\* value: same type, same message, and untouched when it has no stack.
C8_OwnFailure ==
  (outcome.state = "rejected" /\ outcome.from \in ScriptErrors)
    => /\ outcome.error.cls = outcome.from.cls
       /\ outcome.error.msg = outcome.from.msg
       /\ (~outcome.from.hasStack => outcome.error = outcome.from)

\* C10 as stated: no registration, wrap, call or construction of a function
\* or class written in the script, and no read or call of a member that is
\* one, raises a whitelist violation.
C10_ScriptCallables ==
  last.err = "whitelist violation" =>
    /\ last.op \in {"func", "class", "wrap"} \cup CallOps => last.arg \notin ScriptAuthored
    /\ last.op \in {"get", "callMethod"}
         => Get(last.arg, last.name, St).ret \notin ScriptAuthored

C6_WhitelistClosed ==
  [][/\ (phase # "config" /\ last'.op \in {"whitelist.add", "whitelist.delete"})
          => (last'.err # "none" /\ whitelist' = whitelist)
     /\ (phase = "config" /\ last'.op = "whitelist.add")
          => (last'.err = "none" /\ last'.arg \in whitelist')
     /\ (phase = "config" /\ last'.op = "whitelist.delete")
          => (last'.err = "none" /\ last'.arg \notin whitelist')]_vars

\* ------------------------------------------ several executions of a Runtime
\* Runtime.run makes a new Execution for every call; the executions of one
\* Runtime run interleaved at their awaits.  Here functions, mapObjectToProxy,
\* externals, phase and known hold one value per execution; the heap and the
\* whitelist are those of the process and of the Runtime.

Execs == {1, 2}
MaxOpsC == 4

\* class MyPromise extends Promise, made anew by every Execution constructor
MyPromiseOf(e) == IF e = 1 THEN "MyPromise" ELSE "MyPromise2"
ExecutionHeap(h, e) ==
  [o \in DOMAIN h \cup {MyPromiseOf(e), MyPromiseOf(e) \o ".prototype"} |->
     CASE o = MyPromiseOf(e) ->
            Object(TRUE, [n \in {"prototype"} |-> Data(Raw(MyPromiseOf(e) \o ".prototype"))],
                   FunctionPrototype)
       [] o = MyPromiseOf(e) \o ".prototype" ->
            Object(FALSE, [n \in {"constructor"} |-> Data(Raw(MyPromiseOf(e)))], Undefined)
       [] OTHER -> h[o]]

InitC ==
  /\ whitelist = DefaultWhitelist
  /\ heap = InitHeap
  /\ phase = [e \in Execs |-> "config"]
  /\ unit \in Units
  /\ functions = [e \in Execs |-> {}]
  /\ mapObjectToProxy = [e \in Execs |-> [v \in {} |-> Undefined]]
  /\ externals = [e \in Execs |-> [n \in {} |-> Undefined]]
  /\ known = [e \in Execs |-> {}]
  /\ exc = NoExc /\ outcome = NoOutcome /\ thrown = {}
  /\ last = Plain("none", "") @@ [exec |-> 0]
  /\ nOps = 0 /\ nHost = 0
  /\ blacklist = {} /\ whitelistAdd = "native" /\ GLOBALS = {}

\* The fields of an Execution kept by the class instead of the instance.
StC_shared(e) ==
  [map |-> mapObjectToProxy[1], fns |-> functions[1], heap |-> heap, ext |-> externals[1]]
\* this._mapObjectToProxy, this._functions, this.externals of execution e
StC(e) ==
  [map |-> mapObjectToProxy[e], fns |-> functions[e], heap |-> heap, ext |-> externals[e]]

\* obj[UNWRAP] ?? obj: the get trap belongs to the handler of the execution
\* that made the Proxy, and that execution's map has the Proxy.
UnwrapC(obj) ==
  IF IsProxy(obj) /\ \E e \in Execs : obj \in DOMAIN mapObjectToProxy[e]
  THEN Target(obj) ELSE obj
\* new Proxy(o, this._handler): distinct from the Proxies of every execution
NewProxyC(o) ==
  <<ProxyTags[CHOOSE i \in 1..Len(ProxyTags) :
      /\ \A e \in Execs : (<<ProxyTags[i]>> \o o) \notin DOMAIN mapObjectToProxy[e]
      /\ \A j \in 1..(i - 1) :
           \E e \in Execs : (<<ProxyTags[j]>> \o o) \in DOMAIN mapObjectToProxy[e]]>> \o o

\* Execution._maybeWrap(obj, skipGlobalCheck) of the execution whose fields
\* are st
maybeWrapC(obj, skipGlobalCheck, st) ==
  IF ~IsObject(obj) THEN Ok(obj, st)
  ELSE IF UnwrapC(obj) \in BLACKLIST THEN Throw("blacklist violation", st)
  ELSE IF /\ TypeofFunction(UnwrapC(obj), st.heap)
          /\ UnwrapC(obj) \notin st.fns /\ UnwrapC(obj) \notin whitelist
    THEN Throw("whitelist violation", st)
  ELSE IF UnwrapC(obj) \in DOMAIN st.map THEN Ok(st.map[UnwrapC(obj)], st)
  ELSE IF ~skipGlobalCheck /\ UnwrapC(obj) \notin IMMUTABLE THEN Ok(UnwrapC(obj), st)
  ELSE Record2(UnwrapC(obj), NewProxyC(UnwrapC(obj)), st)

\* Execution._getExternal with the configured globals looked up first
getExternal_globalsFirst(name, st) ==
  IF name \in DOMAIN DefaultGlobals THEN Ok(DefaultGlobals[name], st)
  ELSE IF name \in DOMAIN st.ext THEN Ok(st.ext[name], st)
  ELSE Throw("undefined", st)
\* Execution._getExternal(name) of the execution whose fields are st
getExternalC(name, st) ==
  IF name \in DOMAIN st.ext THEN Ok(st.ext[name], st)
  ELSE IF name \in DOMAIN DefaultGlobals THEN Ok(DefaultGlobals[name], st)
  ELSE Throw("undefined", st)

\* Runtime.run(transpiled, thisArg, args): new Execution(this), whose
\* constructor registers its MyPromise, then execution.run sets the externals.
RunC(e, args) ==
  /\ phase[e] = "config"
  /\ heap' = registerClass(Raw(MyPromiseOf(e)),
               [StC(e) EXCEPT !.heap = ExecutionHeap(@, e)]).st.heap
  /\ functions' = [functions EXCEPT ![e] =
       registerClass(Raw(MyPromiseOf(e)), [StC(e) EXCEPT !.heap = ExecutionHeap(@, e)]).st.fns]
  /\ externals' = [externals EXCEPT ![e] =
       [n \in {"Promise"} \cup DOMAIN args |->
          IF n \in DOMAIN args THEN args[n] ELSE Raw(MyPromiseOf(e))]]
  /\ phase' = [phase EXCEPT ![e] = "running"]
  /\ last' = Plain("run", "") @@ [exec |-> e]
  /\ UNCHANGED <<whitelist, unit, mapObjectToProxy, exc, outcome, thrown, known, nOps, nHost>>
  /\ UNCHANGED v1vars

\* A step of the script of execution e; an error that a checkpoint throws
\* leaves the script and settles the execution.
CommitC(e, op, name, r) ==
  /\ phase[e] = "running" /\ nOps < MaxOpsC
  /\ heap' = r.st.heap
  /\ functions' = [functions EXCEPT ![e] = r.st.fns]
  /\ mapObjectToProxy' = [mapObjectToProxy EXCEPT ![e] = r.st.map]
  /\ known' = [known EXCEPT ![e] = IF r.err = "none" /\ IsObject(r.ret) THEN @ \cup {r.ret} ELSE @]
  /\ phase' = [phase EXCEPT ![e] = IF r.err = "none" THEN "running" ELSE "settled"]
  /\ thrown' = IF r.err = "none" THEN thrown ELSE thrown \cup {r.err}
  /\ last' = Step(op, name, r) @@ [exec |-> e]
  /\ nOps' = nOps + 1
  /\ UNCHANGED <<whitelist, unit, externals, exc, outcome, nHost>>
  /\ UNCHANGED v1vars

\* _f(function ...) in execution e
ScriptFunctionC(e) ==
  /\ FreeIds(heap) # {}
  /\ CommitC(e, "func", "",
       [registerFunction(Raw(NextId(heap)),
          [StC(e) EXCEPT !.heap = Allocate(@, NextId(heap), PlainFunction)])
        EXCEPT !.arg = Raw(NextId(heap)), !.obj = Raw(NextId(heap))])

\* _w(_e('NAME')) in execution e
ScriptExternalC(e, name) ==
  /\ CommitC(e, "external", name,
       IF getExternalC(name, StC(e)).err # "none" THEN getExternalC(name, StC(e))
       ELSE [maybeWrapC(getExternalC(name, StC(e)).ret, FALSE, StC(e))
             EXCEPT !.arg = getExternalC(name, StC(e)).ret,
                    !.obj = getExternalC(name, StC(e)).ret])

\* _w(h).x = _w(v) in execution e, h an object of the host that the host
\* gave to the execution: the object is not reachable from the global scope,
\* so it is not wrapped and the assignment changes it.
ScriptStoreC(e, v) ==
  /\ "h" \in DOMAIN externals[e] /\ externals[e]["h"] = Raw("hostObj")
  /\ CommitC(e, "store", "x",
       [Ok(Undefined, [StC(e) EXCEPT !.heap["hostObj"] = PutProperty(@, "x", v)])
        EXCEPT !.arg = v, !.obj = Raw("hostObj")])

\* _w(_w(h).x) in execution e
ScriptLoadC(e) ==
  /\ "h" \in DOMAIN externals[e] /\ externals[e]["h"] = Raw("hostObj")
  /\ "x" \in DOMAIN heap["hostObj"].props
  /\ CommitC(e, "load", "x",
       [maybeWrapC(heap["hostObj"].props["x"].value, FALSE, StC(e))
        EXCEPT !.arg = heap["hostObj"].props["x"].value, !.obj = Raw("hostObj")])

NextC ==
  \/ \E e \in Execs, args \in ArgChoices : RunC(e, args)
  \/ \E e \in Execs : ScriptFunctionC(e)
  \/ \E e \in Execs, name \in ExternalNames : ScriptExternalC(e, name)
  \/ \E e \in Execs : \E v \in known[e] : ScriptStoreC(e, v)
  \/ \E e \in Execs : ScriptLoadC(e)

SpecC == InitC /\ [][NextC]_vars

\* C11: the executions of one Runtime share nothing but the heap, the
\* whitelist and the blacklist.  No function is registered in both, and a
\* function that only the other execution registered is refused by wrap; a
\* name that only the other execution was given is undefined; no Proxy is
\* recorded by both executions, so the wrappers they hold for the same
\* object differ.
C11_Isolation ==
  /\ functions[1] \cap functions[2] = {}
  /\ \A e \in Execs :
       /\ \A v \in known[e] :
            TypeofFunction(v, heap) => UnwrapC(v) \in functions[e] \cup whitelist
       /\ (/\ last.exec = e /\ last.op \in {"load", "external"}
           /\ TypeofFunction(last.arg, heap)
           /\ UnwrapC(last.arg) \notin functions[e] \cup whitelist)
            => last.err \in {"whitelist violation", "blacklist violation"}
       /\ (/\ last.exec = e /\ last.op = "external"
           /\ last.name \notin DOMAIN externals[e] \cup DOMAIN DefaultGlobals)
            => last.err = "undefined"
  /\ \A o \in DOMAIN mapObjectToProxy[1] \cap DOMAIN mapObjectToProxy[2] :
       /\ ~IsProxy(o)
       /\ mapObjectToProxy[1][o] # mapObjectToProxy[2][o]
\* Execution 2 was refused the function that execution 1 registered and left
\* in the object both were given, and both hold a wrapper of Math.
C11_Witness ==
  /\ last.exec = 2 /\ last.op = "load" /\ last.arg \in functions[1]
  /\ last.err = "whitelist violation"
C11_WitnessWrappers ==
  /\ Raw("Math") \in DOMAIN mapObjectToProxy[1] \cap DOMAIN mapObjectToProxy[2]
  /\ "hf" \in DOMAIN externals[1] \ DOMAIN externals[2]
  /\ last.exec = 2 /\ last.op = "external" /\ last.name = "hf" /\ last.err = "undefined"


\* ------------------------------------------- the host and one unit (A)

\* The host keeps one Transpiled Unit, may replace it by its prepared copy,
\* runs it any number of times and looks positions up in its map.
MaxHostSteps == 3
MaxLine == 4
MaxColumn == 5
MappingTables ==
  {Map3.mappings,
   << << <<0, 0, 0, 0>> >> >>,
   << <<>>, << <<1, 0, 2, 3>>, <<3>> >>, <<>>, << <<0, 0, 1, 0 - 1>> >> >>}
\* given: the host passes an object (not undefined); latin1: the JSON text of
\* the map has no character above U+00FF; compiles: the Function constructor
\* accepts the code; script: how the script ends.
UnitsP ==
  {[prepared |-> FALSE, inline |-> 0, hasMap |-> hm, big |-> bg,
    map |-> IF hm THEN [Map3 EXCEPT !.mappings = mt] ELSE NoMap,
    given |-> gv, latin1 |-> l1, compiles |-> cp, script |-> sc] :
     hm \in BOOLEAN, bg \in BOOLEAN, mt \in MappingTables, gv \in BOOLEAN,
     l1 \in BOOLEAN, cp \in BOOLEAN, sc \in {"return", "throw"}}
NoRun == [kind |-> "none", value |-> "", executed |-> NoMap]
InitP ==
  /\ whitelist = DefaultWhitelist /\ heap = InitHeap /\ phase = "config"
  /\ functions = {}
  /\ mapObjectToProxy = [v \in {} |-> Undefined]
  /\ externals = [n \in {} |-> Undefined]
  /\ exc = NoExc /\ thrown = {} /\ nHost = 0
  /\ known \in UnitsP
  /\ unit = known
  /\ outcome = NoRun
  /\ last = [op |-> "none", line |-> 0, column |-> 0]
  /\ nOps = 0
  /\ blacklist = {} /\ whitelistAdd = "native" /\ GLOBALS = {}

\* What Runtime.prepare(transpiled) throws: reading transpiled[PREPARED] of
\* undefined, or btoa in SourceMap.createInline on a character above U+00FF.
prepareThrows(transpiled) ==
  IF ~transpiled.given THEN "TypeError"
  ELSE IF ~transpiled.prepared /\ transpiled.hasMap /\ transpiled.map.version = 3
          /\ ~transpiled.latin1
    THEN "InvalidCharacterError"
    ELSE "none"

\* Execution.run(transpiled, thisArg, args), an async function: whatever is
\* thrown in it rejects the promise it returns.
Execution_run(transpiled) ==
  IF ~transpiled.prepared THEN [kind |-> "rejected", value |-> "Runtime.prepare() needed"]
  ELSE IF ~transpiled.compiles \/ transpiled.script = "throw"
    THEN [kind |-> "rejected",
          value |-> IF ~transpiled.hasMap THEN "TypeError"   \* patchStackTrace(e.stack, undefined)
                    ELSE IF ~transpiled.compiles THEN "SyntaxError" ELSE "script error"]
    ELSE [kind |-> "resolved", value |-> "return value"]

\* Runtime.run(transpiled, thisArg, args): not an async function; it calls
\* Runtime.prepare before it has a promise to return.
Runtime_run(transpiled) ==
  IF prepareThrows(transpiled) # "none"
  THEN [kind |-> "thrown", value |-> prepareThrows(transpiled), executed |-> NoMap]
  ELSE Execution_run(prepare(transpiled)) @@ [executed |-> prepare(transpiled)]

HostStep(op, g, c) ==
  /\ nOps < MaxHostSteps
  /\ nOps' = nOps + 1
  /\ last' = [op |-> op, line |-> g, column |-> c]
  /\ UNCHANGED <<whitelist, heap, phase, functions, mapObjectToProxy, externals, exc,
                 thrown, known, nHost>>
  /\ UNCHANGED v1vars

\* transpiled = Runtime.prepare(transpiled) in the host
HostPrepare ==
  /\ prepareThrows(unit) = "none"
  /\ unit' = prepare(unit)
  /\ UNCHANGED outcome
  /\ HostStep("prepare", 0, 0)

\* runtime.run(transpiled)
HostRun ==
  /\ outcome' = Runtime_run(unit)
  /\ UNCHANGED unit
  /\ HostStep("run", 0, 0)

\* The engine reports a failure at line g + SOURCEMAP_OFFSET, column c of the
\* code the Function constructor made, and the location is looked up.
HostLocate(g, c) ==
  /\ unit.given /\ unit.hasMap
  /\ UNCHANGED <<unit, outcome>>
  /\ HostStep("locate", g, c)

NextP ==
  \/ HostPrepare
  \/ HostRun
  \/ \E g \in 0..MaxLine, c \in 0..MaxColumn : HostLocate(g, c)

SpecP == InitP /\ [][NextP]_vars

Shifted(mappings) == [i \in 1..SOURCEMAP_OFFSET |-> <<>>] \o mappings

\* C12: preparing a prepared unit gives the same unit, and whatever the
\* host did before, the unit that a run executes has at most one inline
\* sourcemap comment and the mappings of the transpiler's unit shifted once.
C12_PrepareIdempotent ==
  /\ (unit.given /\ prepareThrows(unit) = "none")
       => prepare(prepare(unit)) = prepare(unit)
  /\ (last.op = "run" /\ outcome.kind # "thrown") =>
       /\ outcome.executed.prepared
       /\ outcome.executed.inline <= 1
       /\ outcome.executed.map.mappings =
            IF known.hasMap THEN Shifted(known.map.mappings) ELSE known.map.mappings
       /\ outcome.executed.inline = IF known.hasMap /\ ~known.big THEN 1 ELSE 0
\* The host prepared the unit itself and then ran the prepared unit.
C12_Witness ==
  /\ last.op = "run" /\ unit.prepared /\ known.hasMap /\ ~known.big
  /\ outcome.kind = "resolved" /\ outcome.executed.inline = 1
  /\ nOps >= 3

\* C13: Runtime.run never throws synchronously: every failure rejects the
\* promise it returns, and without a failure the promise resolves to the
\* script's return value.
C13_NeverThrowsSync ==
  last.op = "run" =>
    /\ outcome.kind \in {"resolved", "rejected"}
    /\ outcome.kind = "resolved" <=>
         (prepareThrows(unit) = "none" /\ unit.compiles /\ unit.script = "return")

\* C16: in the table patched for the SOURCEMAP_OFFSET lines that the Function
\* constructor puts first, generated position (g + SOURCEMAP_OFFSET, c) has
\* the original line and column that (g, c) has in the unpatched table.
C16_LocationPreserved ==
  last.op = "locate" =>
    LET patched == locate(SourceMap(patchMapForFunctionWrapper(known.map)),
                          last.line + SOURCEMAP_OFFSET, last.column)
        plain == locate(SourceMap(known.map), last.line, last.column)
    IN /\ patched.found = plain.found
       /\ patched.sourceLine = plain.sourceLine
       /\ patched.sourceColumn = plain.sourceColumn
\* A position in the third line of the script was located at its original
\* place, line 1, through the patched table.
C16_Witness ==
  /\ last.op = "locate" /\ last.line = 2 /\ known.map.mappings = Map3.mappings
  /\ locate(SourceMap(prepare(known).map), last.line + SOURCEMAP_OFFSET, last.column).found
  /\ locate(SourceMap(prepare(known).map), last.line + SOURCEMAP_OFFSET, last.column).sourceLine = 1


\* ------------------------------- additions to the global scope (first version)

\* The host adds bindings to the global scope after the module was loaded,
\* calls Runtime.updateGlobals, and instrumented code wraps global names.
AddedNames == {"app", "lib"}
InitG == InitV1

HostAddGlobal(n, o) ==
  /\ nOps < MaxHostSteps
  /\ heap' = [heap EXCEPT !["globalThis"] = PutProperty(@, n, o)]
  /\ phase' = "added"
  /\ last' = Step("add", n, [Ok(Undefined, StV1) EXCEPT !.arg = o])
  /\ nOps' = nOps + 1
  /\ UNCHANGED <<whitelist, unit, functions, mapObjectToProxy, externals, exc, outcome,
                 thrown, known, nHost, blacklist, whitelistAdd, GLOBALS>>

\* Runtime.updateGlobals(): getGlobals(globalThis) with the GLOBALS of the module
UpdateGlobals ==
  /\ nOps < MaxHostSteps
  /\ GLOBALS' = getGlobalsV1(Raw("globalThis"), "", GLOBALS, heap)
  /\ phase' = "updated"
  /\ last' = Plain("updateGlobals", "")
  /\ nOps' = nOps + 1
  /\ UNCHANGED <<whitelist, heap, unit, functions, mapObjectToProxy, externals, exc,
                 outcome, thrown, known, nHost, blacklist, whitelistAdd>>

\* _w(NAME) for a global name
WrapGlobal(name) ==
  /\ nOps < MaxHostSteps
  /\ name \in DOMAIN heap["globalThis"].props
  /\ CommitV1("wrap", name, IdentifierV1_wrap(IdentifierV1(name, StV1)))

NextG ==
  \/ \E n \in AddedNames, o \in {Raw("hostObj"), Raw("hostFn")} : HostAddGlobal(n, o)
  \/ UpdateGlobals
  \/ \E name \in AddedNames \cup {"Math"} : WrapGlobal(name)

SpecG == InitG /\ [][NextG]_vars

\* C14: once Runtime.updateGlobals has been called after the last addition
\* to the global scope, every object bound in the global scope is in GLOBALS,
\* and wrapping it gives a Proxy, not the object.
C14_UpdateGlobals ==
  phase = "updated" =>
    /\ \A n \in DOMAIN heap["globalThis"].props :
         IsObject(heap["globalThis"].props[n].value)
           => heap["globalThis"].props[n].value \in GLOBALS
    /\ (last.op = "wrap" /\ last.err = "none" /\ IsObject(last.arg)) => IsProxy(last.ret)


\* --------------------------------------------- promises made by the script

\* The resolve and reject functions that the engine makes for a promise.
PromiseCallbacks == << <<"resolve", "reject">>, <<"resolve2", "reject2">> >>
CallbackNames == {PromiseCallbacks[k][i] : k \in 1..2, i \in 1..2}
\* MyPromise constructor, with func(reject) left out
MyPromise_resolveOnly(k, st) ==
  registerFunction(Raw(PromiseCallbacks[k][1]),
    [st EXCEPT !.heap = Allocate(Allocate(@, PromiseCallbacks[k][1], PlainFunction),
                                 PromiseCallbacks[k][2], PlainFunction)]).st
\* MyPromise constructor up to the call of the executor: the engine makes
\* resolve and reject, then func(resolve); func(reject)
MyPromise_constructor(k, st) ==
  registerFunction(Raw(PromiseCallbacks[k][2]),
    registerFunction(Raw(PromiseCallbacks[k][1]),
      [st EXCEPT !.heap = Allocate(Allocate(@, PromiseCallbacks[k][1], PlainFunction),
                                   PromiseCallbacks[k][2], PlainFunction)]).st).st

\* new (_w(_e('Promise')))(_f(function (resolve, reject) { ... })): the
\* constructor has called f(resolve, reject) and the script's executor starts.
ScriptNewPromise(k) ==
  /\ Running
  /\ Raw("MyPromise") \in known
  /\ PromiseCallbacks[k][1] \notin DOMAIN heap
  /\ \A j \in 1..(k - 1) : PromiseCallbacks[j][1] \in DOMAIN heap
  /\ heap' = MyPromise_constructor(k, St).heap
  /\ functions' = MyPromise_constructor(k, St).fns
  /\ known' = known \cup {Raw(PromiseCallbacks[k][1]), Raw(PromiseCallbacks[k][2])}
  /\ last' = Plain("newPromise", PromiseCallbacks[k][1])
  /\ nOps' = nOps + 1
  /\ UNCHANGED <<whitelist, phase, unit, mapObjectToProxy, externals, exc, outcome,
                 thrown, nHost>>
  /\ UNCHANGED v1vars

NextM ==
  \/ Next
  \/ \E k \in 1..2 : ScriptNewPromise(k)

SpecM == Init /\ [][NextM]_vars

\* C15: when the executor that the script gave to new Promise starts, resolve
\* and reject are both registered functions, and no wrap or call of either by
\* the script is refused with a whitelist violation.
C15_CallbacksRegistered ==
  /\ \A n \in CallbackNames \cap DOMAIN heap : Raw(n) \in functions
  /\ (last.op \in {"wrap", "call"} /\ last.arg \in {Raw(n) : n \in CallbackNames})
       => last.err = "none"
\* The script called the reject function of a promise it made.
C15_Witness ==
  /\ last.op = "call" /\ last.arg = Raw("reject") /\ last.err = "none"
  /\ Raw("reject") \in last.ran


\* ------------------------------------------------- the Transpiler (B)

\* A script, as far as its identifiers go: where each name occurs (as an
\* expression whose value is used, only as the target of an assignment or
\* update, only as an expression statement whose value is discarded, or not
\* at all) and which names a scope of the script binds.
ScriptNames == {"a", "b", "Math"}
Occurrences == {"none", "value", "lvalue", "statement"}
Scripts ==
  {[occurs |-> oc, binds |-> bs] : oc \in [ScriptNames -> Occurrences], bs \in SUBSET {"a"}}
\* The names the script refers to that no scope of the script binds.
FreeNames(s) == {n \in ScriptNames : s.occurs[n] # "none" /\ n \notin s.binds}

InitT ==
  /\ whitelist = DefaultWhitelist /\ heap = InitHeap /\ phase = "config"
  /\ unit \in {u \in Units : ~u.hasMap}
  /\ functions = {}
  /\ mapObjectToProxy = [v \in {} |-> Undefined]
  /\ externals = [n \in {} |-> Undefined]
  /\ exc = NoExc /\ outcome = NoOutcome /\ thrown = {} /\ nHost = 0
  /\ known = {}
  /\ last = [op |-> "none", script |-> [occurs |-> [n \in ScriptNames |-> "none"], binds |-> {}],
             externals |-> {}]
  /\ nOps = 0
  /\ blacklist = {} /\ whitelistAdd = "native" /\ GLOBALS = {}

\* The Expression visitor on the identifiers of the script: a name is added
\* to options.externals, the Set of the Transpiler, when it is visited as an
\* expression that gets wrapped, has no binding and is not a global name.
Expression(s, collected) ==
  collected \cup {n \in ScriptNames : /\ s.occurs[n] = "value"
                                      /\ n \notin s.binds
                                      /\ n \notin DOMAIN DefaultGlobals}

\* Transpiler.transpile(source): result.externals = new Set(this.externals.keys())
transpile(s) ==
  /\ nOps < MaxHostSteps
  /\ known' = Expression(s, known)
  /\ last' = [op |-> "transpile", script |-> s, externals |-> Expression(s, known)]
  /\ nOps' = nOps + 1
  /\ UNCHANGED <<whitelist, heap, phase, unit, functions, mapObjectToProxy, externals,
                 exc, outcome, thrown, nHost>>
  /\ UNCHANGED v1vars

NextT == \E s \in Scripts : transpile(s)

SpecT == InitT /\ [][NextT]_vars

\* C17: the externals of the unit that transpile(s) returns are exactly the
\* names that s refers to, that no scope of s binds and that are not global
\* names, whatever was transpiled before.
C17_ExternalsOfScript ==
  last.op = "transpile" =>
    last.externals = FreeNames(last.script) \ DOMAIN DefaultGlobals


\* ------------------------------------------ the generated function's scopes

\* The code that Execution.run gives to the Function constructor:
\*   function anonymous(_wrap, _call, _func, _klass, _external) {
\*     "use strict";
\*     const <alias of wrap> = _wrap; ... const <alias of external> = _external;
\*     return (async () => { BODY })();
\*   }
\* known is the chain of scopes, outermost first; a scope maps the names it
\* declares to their value and whether they are constants.
MaxStatements == 4
MaxDepth == 4
Keys == {"wrap", "call", "func", "klass", "external"}
\* bindings: the alias of each checkpoint function ('_w' + random text, ...)
bindings == [k \in Keys |-> "_" \o k \o "#random"]
\* support: the parameters of the generated function and their arguments
support == [p \in {"_" \o k : k \in Keys} |-> "Execution." \o p]
\* The callee of the template of an instrumented expression that calls the
\* parameter itself instead of its alias
callee_parameter(k) == "_" \o k
\* The callee of the templates wrap, call, lambda, klass, external
callee(k) == bindings[k]
\* Names and values that the script declares or assigns
ScriptDeclared == {"_wrap", "_wrapWithProxy"}
Binding(v, c) == [value |-> v, const |-> c]
Declare(scope, n, b) == [x \in DOMAIN scope \cup {n} |-> IF x = n THEN b ELSE scope[x]]
\* The scope that an occurrence of the name n refers to: the innermost one
\* that declares n; 0 when there is none
Resolve(n, scopes) ==
  IF \E i \in 1..Len(scopes) : n \in DOMAIN scopes[i]
  THEN CHOOSE i \in 1..Len(scopes) :
         /\ n \in DOMAIN scopes[i]
         /\ \A j \in 1..Len(scopes) : n \in DOMAIN scopes[j] => j <= i
  ELSE 0

InitS ==
  /\ whitelist = DefaultWhitelist /\ heap = InitHeap
  /\ unit \in {u \in Units : ~u.hasMap}
  /\ functions = {}
  /\ mapObjectToProxy = [v \in {} |-> Undefined]
  /\ externals = [n \in {} |-> Undefined]
  /\ exc = NoExc /\ outcome = NoOutcome /\ thrown = {} /\ nHost = 0
  /\ phase = "called"
  /\ known = << [p \in DOMAIN support |-> Binding(support[p], FALSE)] >>
  /\ last = [op |-> "f.call", name |-> "", value |-> "", err |-> "none"]
  /\ nOps = 0
  /\ blacklist = {} /\ whitelistAdd = "native" /\ GLOBALS = {}

StatementS(ph, scopes, l) ==
  /\ phase' = ph
  /\ known' = scopes
  /\ last' = l
  /\ UNCHANGED <<whitelist, heap, unit, functions, mapObjectToProxy, externals,
                 exc, outcome, thrown, nHost>>
  /\ UNCHANGED v1vars

\* const ALIAS = _KEY; for every key, then the async arrow function is called
\* and its body, the script, starts in a scope of its own.
iife ==
  /\ phase = "called"
  /\ nOps' = nOps
  /\ StatementS("body",
       << [n \in DOMAIN known[1] \cup {bindings[k] : k \in Keys} |->
             IF n \in DOMAIN known[1] THEN known[1][n]
             ELSE Binding(known[1]["_" \o CHOOSE k \in Keys : bindings[k] = n].value, TRUE)],
          [n \in {} |-> Binding("", FALSE)] >>,
       [op |-> "iife", name |-> "", value |-> "", err |-> "none"])

ScriptStatement == phase = "body" /\ nOps < MaxStatements /\ nOps' = nOps + 1

\* let n = v; or const n = v; in the current scope
ScriptDeclare(n, v, c) ==
  /\ ScriptStatement
  /\ n \notin DOMAIN known[Len(known)]
  /\ StatementS("body", [known EXCEPT ![Len(known)] = Declare(@, n, Binding(v, c))],
       [op |-> "declare", name |-> n, value |-> v, err |-> "none"])

\* n = v; assigning to a constant is a TypeError, to no binding a ReferenceError
ScriptAssign(n, v) ==
  /\ ScriptStatement
  /\ IF Resolve(n, known) = 0
     THEN StatementS("body", known, [op |-> "assign", name |-> n, value |-> v, err |-> "ReferenceError"])
     ELSE IF known[Resolve(n, known)][n].const
     THEN StatementS("body", known, [op |-> "assign", name |-> n, value |-> v, err |-> "TypeError"])
     ELSE StatementS("body", [known EXCEPT ![Resolve(n, known)][n].value = v],
            [op |-> "assign", name |-> n, value |-> v, err |-> "none"])

\* The script enters a function or block of its own, or leaves it.
ScriptEnter ==
  /\ ScriptStatement /\ Len(known) < MaxDepth
  /\ StatementS("body", Append(known, [n \in {} |-> Binding("", FALSE)]),
       [op |-> "enter", name |-> "", value |-> "", err |-> "none"])
ScriptLeave ==
  /\ ScriptStatement /\ Len(known) > 2
  /\ StatementS("body", SubSeq(known, 1, Len(known) - 1),
       [op |-> "leave", name |-> "", value |-> "", err |-> "none"])

\* An instrumented expression is evaluated: its callee is looked up.
ScriptCheckpoint(k) ==
  /\ ScriptStatement
  /\ StatementS("body", known,
       [op |-> "checkpoint", name |-> k,
        value |-> known[Resolve(callee(k), known)][callee(k)].value, err |-> "none"])

NextS ==
  \/ iife
  \/ \E n \in ScriptDeclared, c \in BOOLEAN : ScriptDeclare(n, "x => x", c)
  \/ \E n \in ScriptDeclared \cup {bindings["wrap"]} : ScriptAssign(n, "x => x")
  \/ ScriptEnter
  \/ ScriptLeave
  \/ \E k \in Keys : ScriptCheckpoint(k)

SpecS == InitS /\ [][NextS]_vars

\* C18: when the script runs, every alias is a constant of the generated
\* function bound to its checkpoint function, and whatever the script has
\* declared or assigned under other names, an instrumented expression calls
\* the checkpoint function of the execution.
C18_AliasesBound ==
  /\ phase = "body" =>
       \A k \in Keys :
         /\ Resolve(bindings[k], known) = 1
         /\ known[1][bindings[k]] = Binding(support["_" \o k], TRUE)
  /\ last.op = "checkpoint" => last.value = support["_" \o last.name]
  /\ last.op \in {"declare", "assign", "enter", "leave", "checkpoint"} => phase = "body"
\* The script declared _wrap and _wrapWithProxy as functions that return
\* their argument, and the wrap checkpoint was still the one called.
C18_Witness ==
  /\ last.op = "checkpoint" /\ last.name = "wrap"
  /\ last.value = "Execution._wrap"
  /\ Resolve("_wrap", known) > 1
  /\ known[Resolve("_wrap", known)]["_wrap"].value = "x => x"
  /\ Resolve("_wrapWithProxy", known) > 1


\* ------------------------------------------------------- bound functions

\* _c(_w(f), 'bind', []) was the step just taken, for an f whose member
\* 'bind' is Function.prototype.bind
BindStep ==
  /\ last'.op = "callMethod" /\ last'.name = "bind"
  /\ IsObject(last'.arg)
  /\ Get(Unwrap(last'.arg, St), "bind", St).ret = Raw("bind")
\* f was whitelisted or registered when the step was taken
BindAuthorized ==
  /\ TypeofFunction(last'.arg, heap)
  /\ Unwrap(last'.arg, St) \in functions \cup whitelist
BoundFunctions == {Raw(o) : o \in {x \in DOMAIN heap : heap[x].bound # Undefined}}

C20_MemberProtected ==
  [][/\ (/\ last'.op = "get" /\ IsProxy(last'.obj) /\ last'.err = "none"
         /\ IsObject(last'.ret))
          => /\ IsProxy(last'.ret)
             /\ Target(last'.ret) \in DOMAIN mapObjectToProxy'
             /\ mapObjectToProxy'[Target(last'.ret)] = last'.ret
     /\ \A m \in DOMAIN mapObjectToProxy :
          /\ m \in DOMAIN mapObjectToProxy'
          /\ mapObjectToProxy'[m] = mapObjectToProxy[m]
     /\ (/\ last'.op \in {"wrap", "external", "get"} /\ last'.err = "none"
         /\ IsObject(last'.ret)
         /\ Unwrap(last'.ret, St) \in DOMAIN mapObjectToProxy)
          => last'.ret = mapObjectToProxy[Unwrap(last'.ret, St)]
     /\ (last'.op \in MutatingOps /\ IsProxy(last'.obj))
          => (last'.err = ViolationOf(last'.op) /\ heap' = heap)]_vars
\* The object that only a getter of the global object returns, which is not
\* reachable from the global scope, was read through the Proxy of the global
\* object, and a mutation through its Proxy has been refused.
C20_Witness ==
  /\ Raw("hidden") \notin IMMUTABLE
  /\ last.op \in MutatingOps /\ last.obj = <<"Proxy", "hidden">>
  /\ last.err = ViolationOf(last.op)
  /\ mapObjectToProxy[Raw("hidden")] = <<"Proxy", "hidden">>

\* ------------------------------------------------- external references (A)

\* What the host may have bound to a name with the args of run.  Math and
\* isNaN are also names of Runtime.globals.
SuppliedNames == {"Math", "isNaN", "h"}
SuppliedValues == {Raw("hostObj"), Raw("hostFn")}
Supplied ==
  {[n \in D |-> f[n]] : D \in SUBSET SuppliedNames, f \in [SuppliedNames -> SuppliedValues]}
InitE ==
  /\ whitelist = DefaultWhitelist /\ heap = InitHeap /\ phase = "running"
  /\ unit \in {u \in Units : ~u.hasMap}
  /\ functions = {}
  /\ mapObjectToProxy = [v \in {} |-> Undefined]
  /\ externals \in Supplied
  /\ exc = NoExc /\ outcome = NoOutcome /\ thrown = {} /\ nHost = 0
  /\ known = {}
  /\ last = Plain("run", "")
  /\ nOps = 0
  /\ blacklist = {} /\ whitelistAdd = "native" /\ GLOBALS = {}

\* _e('NAME'): the script refers to a free identifier
ResolveExternal(name) ==
  /\ nOps < MaxHostSteps
  /\ last' = Step("_external", name, getExternalC(name, St @@ [ext |-> externals]))
  /\ nOps' = nOps + 1
  /\ UNCHANGED <<whitelist, heap, phase, unit, functions, mapObjectToProxy, externals,
                 exc, outcome, thrown, known, nHost>>
  /\ UNCHANGED v1vars

NextE == \E name \in SuppliedNames \cup {"hf"} : ResolveExternal(name)

SpecE == InitE /\ [][NextE]_vars

\* C21: _getExternal(name) returns the external supplied under the name when
\* there is one, also when a configured global has the name; else the
\* configured global; and with neither it throws the undefined Runtime.Error
\* and returns nothing.
C21_ResolveExternal ==
  last.op = "_external" =>
    IF last.name \in DOMAIN externals
    THEN last.err = "none" /\ last.ret = externals[last.name]
    ELSE IF last.name \in DOMAIN DefaultGlobals
    THEN last.err = "none" /\ last.ret = DefaultGlobals[last.name]
    ELSE last.err = "undefined" /\ last.ret = Undefined
\* The host supplied its own object as Math, and the script got that one.
C21_Witness ==
  /\ last.op = "_external" /\ last.name = "Math"
  /\ "Math" \in DOMAIN externals /\ externals["Math"] # DefaultGlobals["Math"]
  /\ last.ret = externals["Math"] /\ last.err = "none"


\* ---------------------------------------- getGlobals, one step at a time (A)

\* Object graphs of a host: the global object with a data property, an
\* accessor with getter (and maybe setter), maybe an accessor with a setter
\* only, maybe a property whose read throws; objects that refer to each other
\* and back to the global object; the AsyncFunction constructor, which no
\* property of the graph refers to.
GraphObject(props) == Object(FALSE, props, Undefined)
ThrowingData(v) == Data(v) @@ [throws |-> TRUE]
Graph(setterOnly, throwing, cyclic, bothAccessors) ==
  [o \in {"globalThis", "A", "B", "AsyncFunction", "G", "S", "W", "T"} |->
     CASE o = "globalThis" ->
            GraphObject(
              [n \in {"a", "acc"} \cup (IF setterOnly THEN {"w"} ELSE {})
                     \cup (IF throwing THEN {"b", "t"} ELSE {}) |->
                 CASE n = "a" -> Data(Raw("A"))
                   [] n = "acc" -> Accessor(Raw("G"), IF bothAccessors THEN Raw("S") ELSE Undefined)
                   [] n = "w" -> Accessor(Undefined, Raw("W"))
                   [] n = "b" -> ThrowingData(Raw("T"))
                   [] n = "t" -> Data(Raw("B"))])
       [] o = "A" ->
            GraphObject([n \in {"b", "self"} |-> IF n = "b" THEN Data(Raw("B")) ELSE Data(Raw("A"))])
       [] o = "B" ->
            GraphObject([n \in {"a"} \cup (IF cyclic THEN {"back"} ELSE {}) |->
                           IF n = "a" THEN Data(Raw("A")) ELSE Data(Raw("globalThis"))])
       [] o = "AsyncFunction" -> [GraphObject([n \in {"b"} |-> Data(Raw("B"))]) EXCEPT !.fn = TRUE]
       [] o \in {"G", "S", "W"} -> [GraphObject(NoProps) EXCEPT !.fn = TRUE]
       [] OTHER -> GraphObject(NoProps)]
Graphs == {Graph(s, t, c, b) : s \in BOOLEAN, t \in BOOLEAN, c \in BOOLEAN, b \in BOOLEAN}

\* The body of the for loop over Object.entries(descriptors), as the calls
\* of getGlobals it makes: on the getter and then the setter of an accessor
\* that has a getter, else on obj[name].
RECURSIVE Entries(_, _)
Entries(props, names) ==
  IF names = <<>> THEN <<>>
  ELSE (IF props[Head(names)].get # Undefined
        THEN <<[name |-> Head(names), what |-> "get"]>>
             \o (IF props[Head(names)].set # Undefined
                 THEN <<[name |-> Head(names), what |-> "set"]>> ELSE <<>>)
        ELSE <<[name |-> Head(names), what |-> "read"]>>)
       \o Entries(props, Tail(names))
\* Object.entries gives the properties in the order of their creation.
CreationOrder == <<"b", "a", "acc", "w", "t", "self", "back">>
InOrder(props) == SelectSeq(CreationOrder, LAMBDA n : n \in DOMAIN props)
Frame(obj, h) ==
  [obj |-> obj, todo |-> Entries(h[Base(obj)].props, InOrder(h[Base(obj)].props))]
EntryThrows(d, e) == e.what = "read" /\ "throws" \in DOMAIN d
EntryValue(d, e) ==
  CASE e.what = "get" -> d.get
    [] e.what = "set" -> d.set
    [] OTHER -> ReadDescriptor(d)

InitR ==
  /\ whitelist = DefaultWhitelist /\ unit \in {u \in Units : ~u.hasMap}
  /\ functions = {} /\ mapObjectToProxy = [v \in {} |-> Undefined]
  /\ outcome = NoOutcome /\ nHost = 0 /\ nOps = 0
  /\ blacklist = {} /\ whitelistAdd = "native"
  /\ heap \in Graphs
  /\ GLOBALS = {}
  /\ known = <<>>
  /\ exc = <<Raw("globalThis"), Raw("AsyncFunction")>>
  /\ externals = [o \in {} |-> 0]
  /\ thrown = {}
  /\ phase = "loading"
  /\ last = [op |-> "none", obj |-> Undefined, name |-> ""]

UnchangedR ==
  /\ UNCHANGED <<whitelist, heap, unit, functions, mapObjectToProxy, outcome, nHost, nOps,
                 blacklist, whitelistAdd>>

\* getGlobals(obj) is entered on the stack stack: if (obj === Object(obj) &&
\* !IMMUTABLE.has(obj)) { IMMUTABLE.add(obj); ... }
getGlobals_enter(obj, stack) ==
  IF IsObject(obj) /\ obj \notin GLOBALS
  THEN /\ GLOBALS' = GLOBALS \cup {obj}
       /\ known' = Append(stack, Frame(obj, heap))
       /\ externals' = [o \in DOMAIN externals \cup {obj} |->
                          IF o = obj THEN (IF o \in DOMAIN externals THEN externals[o] + 1 ELSE 1)
                          ELSE externals[o]]
  ELSE /\ GLOBALS' = GLOBALS
       /\ known' = stack
       /\ externals' = externals

\* getGlobals(globalThis); getGlobals(AsyncFunction); at module load
LoadRoot ==
  /\ phase = "loading" /\ known = <<>> /\ exc # <<>>
  /\ getGlobals_enter(Head(exc), known)
  /\ exc' = Tail(exc)
  /\ last' = [op |-> "root", obj |-> Head(exc), name |-> ""]
  /\ UNCHANGED <<thrown, phase>>
  /\ UnchangedR

Advance(stack) == [stack EXCEPT ![Len(stack)].todo = Tail(@)]
\* A catch that abandons the object whose property failed
Caught_abandon(stack) == SubSeq(stack, 1, Len(stack) - 1)
\* catch (e) { console.warn(...) }: the loop goes on with the next entry
Caught(stack) == Advance(stack)

\* One call of getGlobals in the loop of the innermost object
VisitEntry ==
  /\ phase = "loading" /\ known # <<>> /\ known[Len(known)].todo # <<>>
  /\ LET top == known[Len(known)]
         e == Head(top.todo)
         d == heap[Base(top.obj)].props[e.name]
     IN /\ IF EntryThrows(d, e)
           THEN /\ known' = Caught(known)
                /\ thrown' = thrown \cup {<<top.obj, e.name>>}
                /\ UNCHANGED <<GLOBALS, externals>>
           ELSE /\ getGlobals_enter(EntryValue(d, e), Advance(known))
                /\ UNCHANGED thrown
        /\ last' = [op |-> "visit", obj |-> top.obj, name |-> e.name]
  /\ UNCHANGED <<exc, phase>>
  /\ UnchangedR

\* The loop of the innermost object is over: getGlobals returns.
Return ==
  /\ phase = "loading" /\ known # <<>> /\ known[Len(known)].todo = <<>>
  /\ known' = SubSeq(known, 1, Len(known) - 1)
  /\ last' = [op |-> "return", obj |-> known[Len(known)].obj, name |-> ""]
  /\ UNCHANGED <<GLOBALS, externals, thrown, exc, phase>>
  /\ UnchangedR

\* Both calls have returned: the module is loaded.
Loaded ==
  /\ phase = "loading" /\ known = <<>> /\ exc = <<>>
  /\ phase' = "done"
  /\ last' = [op |-> "loaded", obj |-> Undefined, name |-> ""]
  /\ UNCHANGED <<GLOBALS, known, externals, thrown, exc>>
  /\ UnchangedR

NextR == LoadRoot \/ VisitEntry \/ Return \/ Loaded

SpecR == InitR /\ [][NextR]_vars
SpecRFair == SpecR /\ WF_vars(NextR)

\* What own-property descriptors lead to, from the objects in S: the values
\* of data properties whose read does not throw, getters and setters.
Successors(S, h) ==
  {v \in {Raw(o) : o \in DOMAIN h} :
     \E s \in S : \E n \in DOMAIN h[Base(s)].props :
        LET d == h[Base(s)].props[n]
        IN /\ "throws" \notin DOMAIN d
           /\ v \in {d.value, d.get, d.set}}
RECURSIVE Closure(_, _)
Closure(S, h) ==
  IF Successors(S, h) \subseteq S THEN S ELSE Closure(S \cup Successors(S, h), h)

\* C22: when the module is loaded, the set holds exactly what is reachable
\* from the global object or the AsyncFunction constructor through data
\* property values, getters and setters, the setter of an accessor without
\* getter included, leaving out what only a throwing property leads to.
C22_ReachabilitySet ==
  phase = "done" =>
    GLOBALS = Closure({Raw("globalThis"), Raw("AsyncFunction")}, heap)


\* C29: getGlobals comes to an end on every object graph, with cycles and
\* shared objects or not; it descends into no object twice; and after a
\* property whose read throws, the remaining properties of the object are
\* still followed: once the module is loaded, everything a non-throwing
\* property of a visited object leads to has been visited.
C29_Terminates ==
  /\ [](\A o \in DOMAIN externals : externals[o] <= 1)
  /\ [](phase = "done" =>
          /\ DOMAIN externals = GLOBALS
          /\ \A o \in GLOBALS : \A i \in 1..Len(Frame(o, heap).todo) :
                (/\ ~EntryThrows(heap[Base(o)].props[Frame(o, heap).todo[i].name],
                                 Frame(o, heap).todo[i])
                 /\ IsObject(EntryValue(heap[Base(o)].props[Frame(o, heap).todo[i].name],
                                        Frame(o, heap).todo[i])))
                  => EntryValue(heap[Base(o)].props[Frame(o, heap).todo[i].name],
                                Frame(o, heap).todo[i]) \in GLOBALS)
  /\ <>(phase = "done")
\* A graph with a cycle through the global object and a throwing property
\* has been traversed to the end; the exception was caught.
C29_Witness ==
  /\ phase = "done"
  /\ "back" \in DOMAIN heap["B"].props
  /\ <<Raw("globalThis"), "b">> \in thrown
  /\ {Raw("A"), Raw("B"), Raw("G")} \subseteq GLOBALS


(***************************************************************************)
(* The plugin of version A as a tree rewriter (src/unnamed/part_006).      *)
(* A node of the syntax tree is a record; `loc` is the position of a node  *)
(* of the source (its path in the parsed script) and is empty on every     *)
(* node a template produces; `checked` is the checkedForWrap mark.  The    *)
(* variable `unit` holds the tree under traversal, `functions` the parsed  *)
(* script, `known` the traversal queue of paths.                           *)
(***************************************************************************)
Node(type, name, kids) ==
  [type |-> type, name |-> name, kids |-> kids, loc |-> <<>>, checked |-> FALSE]

Id(name) == Node("Identifier", name, <<>>)

NumericLiteral == Node("NumericLiteral", "1", <<>>)

MemberExpression(object, kind, property) ==
  Node("MemberExpression", kind, <<object, property>>)

CallExpression(fn, arguments) == Node("CallExpression", "", <<fn>> \o arguments)

ExpressionStatement(e) == Node("ExpressionStatement", "", <<e>>)

RECURSIVE Located(_, _)
Located(node, p) ==
  [node EXCEPT !.loc = <<0>> \o p,
               !.kids = [i \in 1..Len(node.kids) |-> Located(node.kids[i], Append(p, i))]]

RECURSIVE At(_, _)
At(node, p) == IF p = <<>> THEN node ELSE At(node.kids[Head(p)], Tail(p))

RECURSIVE ReplaceAt(_, _, _)
ReplaceAt(node, p, new) ==
  IF p = <<>> THEN new
  ELSE [node EXCEPT !.kids[Head(p)] = ReplaceAt(@, Tail(p), new)]

RECURSIVE Paths(_)
Paths(node) ==
  {<<>>} \cup UNION {{<<i>> \o q : q \in Paths(node.kids[i])} : i \in 1..Len(node.kids)}

ParentPath(p) == SubSeq(p, 1, Len(p) - 1)

ChildPaths(node, p) == [i \in 1..Len(node.kids) |-> Append(p, i)]

\* The scripts: `let x = 1;` followed by one statement.
Members ==
  { MemberExpression(Id("o"), "static", Id("m")),
    MemberExpression(Id("o"), "computed", Id("k")),
    MemberExpression(Id("o"), "private", Node("PrivateName", "m", <<>>)) }

ArgumentLists == { <<>>, <<Id("x")>>, <<Id("x"), NumericLiteral>> }

MemberCalls == { CallExpression(m, a) : m \in Members, a \in ArgumentLists }

SourceExpressions ==
  MemberCalls
    \cup { CallExpression(Id("f"), <<Id("x")>>),
           MemberExpression(Id("o"), "static", Id("m")),
           Id("x"), Id("o"), NumericLiteral,
           Node("FunctionExpression", "", <<>>),
           Node("ArrowFunctionExpression", "", <<Id("x")>>),
           Node("ConditionalExpression", "",
                <<Id("x"), CallExpression(MemberExpression(Id("o"), "static", Id("m")), <<>>),
                  NumericLiteral>>) }

SourceStatements ==
  { ExpressionStatement(e) : e \in SourceExpressions }
    \cup { ExpressionStatement(Node("AssignmentExpression", "", <<l, e>>)) :
             l \in {Id("x"), MemberExpression(Id("o"), "static", Id("m"))},
             e \in SourceExpressions }
    \cup { ExpressionStatement(Node("UnaryExpression", op, <<e>>)) :
             op \in {"delete", "typeof"},
             e \in MemberCalls \cup {MemberExpression(Id("o"), "static", Id("m"))} }
    \cup { ExpressionStatement(Node("UpdateExpression", "++",
                                    <<MemberExpression(Id("o"), "static", Id("m"))>>)) }
    \cup { Node("VariableDeclaration", "y", <<e>>) : e \in SourceExpressions }

SourcePrograms ==
  { Located(Node("Program", "",
                 <<Node("VariableDeclaration", "x", <<NumericLiteral>>), s>>), <<>>) :
      s \in SourceStatements }

NO_WRAP_NEEDED_more ==
  { "BigIntLiteral", "BooleanLiteral", "DecimalLiteral", "NullLiteral", "NumericLiteral",
    "StringLiteral", "TemplateLiteral", "ConditionalExpression", "LogicalExpression",
    "ParenthesizedExpression", "SequenceExpression", "Super", "MemberExpression" }

NO_WRAP_NEEDED ==
  { "BigIntLiteral", "BooleanLiteral", "DecimalLiteral", "NullLiteral", "NumericLiteral",
    "StringLiteral", "TemplateLiteral", "ConditionalExpression", "LogicalExpression",
    "ParenthesizedExpression", "SequenceExpression", "Super" }

wrap_template(node) == CallExpression(Id("_w"), <<node>>)

call_template(object, property, arguments) ==
  CallExpression(Id("_c"), <<object, property>> \o arguments)

lambda_template(node) == CallExpression(Id("_f"), <<node>>)

external_template(name) ==
  CallExpression(Id("_e"), <<Node("StringLiteral", name, <<>>)>>)

iife_template(body) ==
  << Node("Directive", "use strict", <<>>),
     Node("ReturnStatement", "",
          <<CallExpression(Node("ArrowFunctionExpression", "", body), <<>>)>>) >>

ExpressionTypes ==
  { "Identifier", "NumericLiteral", "StringLiteral", "MemberExpression", "CallExpression",
    "AssignmentExpression", "UnaryExpression", "UpdateExpression", "ConditionalExpression",
    "FunctionExpression", "ArrowFunctionExpression" }

\* Babel's Expression paths: a node of an expression type, an Identifier only
\* where it is a reference.
isExpression(ast, p) ==
  /\ p # <<>>
  /\ At(ast, p).type \in ExpressionTypes
  /\ At(ast, p).type = "Identifier" =>
       /\ ~(/\ At(ast, ParentPath(p)).type = "MemberExpression"
            /\ At(ast, ParentPath(p)).name # "computed"
            /\ p[Len(p)] = 2)
       /\ ~(/\ At(ast, ParentPath(p)).type = "AssignmentExpression"
            /\ p[Len(p)] = 1)

\* path.scope.hasBinding(name, true): the script declares the name.
hasBinding(ast, name) ==
  \E q \in Paths(ast) :
    At(ast, q).type = "VariableDeclaration" /\ At(ast, q).name = name

isLvalue(ast, p) ==
  \/ At(ast, ParentPath(p)).type = "AssignmentExpression" /\ p[Len(p)] = 1
  \/ At(ast, ParentPath(p)).type = "UnaryExpression" /\ At(ast, ParentPath(p)).name = "delete"
  \/ At(ast, ParentPath(p)).type = "UpdateExpression"

isMemberCall(node) ==
  /\ node.type = "CallExpression"
  /\ node.kids[1].type = "MemberExpression"

\* "Use helper function for calls."
plugin_call(node) ==
  IF isMemberCall(node) /\ node.kids[1].name # "private"
    THEN call_template(node.kids[1].kids[1],
                       IF node.kids[1].name = "computed" THEN node.kids[1].kids[2]
                       ELSE Node("StringLiteral", node.kids[1].kids[2].name, <<>>),
                       Tail(node.kids))
    ELSE node

\* "Fetch external references", then the wrap.
plugin_wrap(ast, node) ==
  wrap_template(IF node.type = "Identifier" /\ ~hasBinding(ast, node.name)
                  THEN external_template(node.name) ELSE node)

\* The part of the visitor after the lvalue test, on the marked node.
plugin_replace(ast, p, node, called) ==
  IF At(ast, ParentPath(p)).type = "ExpressionStatement" THEN called
  ELSE IF called.type \in {"FunctionExpression", "ArrowFunctionExpression"}
    THEN lambda_template(called)
  ELSE plugin_wrap(ast, called)

\* visitor.Expression: the node that stands at the path afterwards.
plugin_Expression(ast, p) ==
  IF At(ast, p).loc = <<>> \/ At(ast, p).checked THEN At(ast, p)
  ELSE IF At(ast, p).type \in NO_WRAP_NEEDED \/ isLvalue(ast, p)
    THEN [At(ast, p) EXCEPT !.checked = TRUE]
  ELSE plugin_replace(ast, p, [At(ast, p) EXCEPT !.checked = TRUE],
                      plugin_call([At(ast, p) EXCEPT !.checked = TRUE]))

UnchangedW ==
  UNCHANGED <<whitelist, heap, mapObjectToProxy, externals, exc, outcome, thrown, last,
              nOps, nHost, blacklist, whitelistAdd, GLOBALS>>

InitW ==
  /\ functions \in SourcePrograms
  /\ unit = functions
  /\ known = << <<>> >>
  /\ phase = "parsed"
  /\ whitelist = DefaultWhitelist /\ heap = InitHeap
  /\ mapObjectToProxy = [v \in {} |-> Undefined]
  /\ externals = <<>> /\ exc = NoExc /\ outcome = NoOutcome /\ thrown = {}
  /\ last = Plain("transpile", "")
  /\ nOps = 0 /\ nHost = 0
  /\ blacklist = {} /\ whitelistAdd = "native" /\ GLOBALS = {}

\* visitor.Program: the body is put inside the async arrow function.
VisitProgram ==
  /\ phase = "parsed"
  /\ known # <<>> /\ Head(known) = <<>>
  /\ unit' = [unit EXCEPT !.kids = iife_template(unit.kids)]
  /\ known' = ChildPaths(unit', <<>>)
  /\ phase' = "traversing"
  /\ UNCHANGED functions /\ UnchangedW

\* A replaced node is queued again; otherwise the traversal descends.
VisitExpression ==
  /\ phase = "traversing"
  /\ known # <<>> /\ isExpression(unit, Head(known))
  /\ unit' = ReplaceAt(unit, Head(known), plugin_Expression(unit, Head(known)))
  /\ known' = IF At(unit', Head(known)).type # At(unit, Head(known)).type
                 \/ At(unit', Head(known)).kids # At(unit, Head(known)).kids
                THEN known
                ELSE ChildPaths(At(unit', Head(known)), Head(known)) \o Tail(known)
  /\ UNCHANGED <<functions, phase>> /\ UnchangedW

VisitOther ==
  /\ phase = "traversing"
  /\ known # <<>> /\ ~isExpression(unit, Head(known))
  /\ known' = ChildPaths(At(unit, Head(known)), Head(known)) \o Tail(known)
  /\ UNCHANGED <<unit, functions, phase>> /\ UnchangedW

Generate ==
  /\ phase = "traversing"
  /\ known = <<>>
  /\ phase' = "generated"
  /\ UNCHANGED <<unit, functions, known>> /\ UnchangedW

NextW == VisitProgram \/ VisitExpression \/ VisitOther \/ Generate

SpecW == InitW /\ [][NextW]_vars

isCheckpoint(node, alias) ==
  /\ node.type = "CallExpression" /\ node.loc = <<>>
  /\ node.kids[1] = Id(alias)

\* The script a tree stands for once the checkpoints are taken out again.
RECURSIVE Erased(_)
Erased(node) ==
  IF isCheckpoint(node, "_w") \/ isCheckpoint(node, "_f") THEN Erased(node.kids[2])
  ELSE IF isCheckpoint(node, "_e") THEN Id(node.kids[2].name)
  ELSE IF isCheckpoint(node, "_c")
    THEN CallExpression(
           IF node.kids[3].type = "StringLiteral" /\ node.kids[3].loc = <<>>
             THEN MemberExpression(Erased(node.kids[2]), "static", Id(node.kids[3].name))
             ELSE MemberExpression(Erased(node.kids[2]), "computed", Erased(node.kids[3])),
           [i \in 1..(Len(node.kids) - 3) |-> Erased(node.kids[i + 3])])
  ELSE IF node.type = "Program" /\ node.kids[1].type = "Directive"
    THEN Node("Program", "",
              [i \in 1..Len(node.kids[2].kids[1].kids[1].kids) |->
                 Erased(node.kids[2].kids[1].kids[1].kids[i])])
  ELSE Node(node.type, node.name, [i \in 1..Len(node.kids) |-> Erased(node.kids[i])])

SoleArgumentOf(ast, p, alias) ==
  /\ isCheckpoint(At(ast, ParentPath(p)), alias)
  /\ Len(At(ast, ParentPath(p)).kids) = 2
  /\ p[Len(p)] = 2

\* The forms the rewriter is said to leave alone.
ExemptForms ==
  { "BigIntLiteral", "BooleanLiteral", "DecimalLiteral", "NullLiteral", "NumericLiteral",
    "StringLiteral", "TemplateLiteral", "ConditionalExpression", "LogicalExpression",
    "ParenthesizedExpression", "SequenceExpression", "Super" }

Exempt(ast, p) ==
  \/ At(ast, p).type \in ExemptForms
  \/ isLvalue(ast, p)
  \/ At(ast, ParentPath(p)).type = "ExpressionStatement"

\* An expression of the script in the output: a node of the source, or the
\* helper call / external fetch that stands in its place.
ScriptExpression(ast, p) ==
  /\ isExpression(ast, p)
  /\ \/ At(ast, p).loc # <<>>
     \/ isCheckpoint(At(ast, p), "_c")
     \/ isCheckpoint(At(ast, p), "_e")

\* C23: in the generated tree the script is still there (taking the
\* checkpoints out gives the parsed script back), and every expression of it
\* that is not of an exempt form, not an lvalue / delete / ++ operand and not
\* a bare statement is the sole argument of the wrap checkpoint, a function
\* or arrow function of the registration checkpoint.
C23_EveryExpressionWrapped ==
  phase = "generated" =>
    /\ Erased(unit) = Erased(functions)
    /\ \A p \in Paths(unit) :
         (ScriptExpression(unit, p) /\ ~Exempt(unit, p)) =>
           SoleArgumentOf(unit, p,
             IF At(unit, p).type \in {"FunctionExpression", "ArrowFunctionExpression"}
               THEN "_f" ELSE "_w")

C23_Witness ==
  /\ phase = "generated"
  /\ \E p \in Paths(unit) :
       /\ isCheckpoint(At(unit, p), "_c") /\ SoleArgumentOf(unit, p, "_w")
  /\ \E p \in Paths(unit) :
       /\ p # <<>> /\ At(unit, p).type = "MemberExpression" /\ isLvalue(unit, p)
       /\ At(unit, p).loc # <<>>
  /\ \E p \in Paths(unit) :
       /\ isCheckpoint(At(unit, p), "_e") /\ SoleArgumentOf(unit, p, "_w")

SourceMemberCalls(ast) ==
  { p \in Paths(ast) : isMemberCall(At(ast, p)) /\ At(ast, p).kids[1].name # "private" }

\* C24: every member call of the script whose property is not a private name
\* stands in the generated tree as one call of the call checkpoint with the
\* receiver, the key (a string literal for a static key) and the arguments in
\* their order, a bare statement included; a call through a private name is
\* still a direct call.
C24_MemberCallsRewritten ==
  phase = "generated" =>
    /\ \A s \in SourceMemberCalls(functions) :
         \E p \in Paths(unit) :
           /\ isCheckpoint(At(unit, p), "_c")
           /\ Erased(At(unit, p)) = Erased(At(functions, s))
           /\ (At(functions, s).kids[1].name = "static") =
                (At(unit, p).kids[3].type = "StringLiteral")
    /\ Cardinality({p \in Paths(unit) : isCheckpoint(At(unit, p), "_c")})
         = Cardinality(SourceMemberCalls(functions))
    /\ \A s \in Paths(functions) :
         (isMemberCall(At(functions, s)) /\ At(functions, s).kids[1].name = "private") =>
           \E p \in Paths(unit) : At(unit, p).loc = <<0>> \o s


(***************************************************************************)
(* parseSegment (src/src/SourceMap.js 247-273) and the base-64 VLQ         *)
(* encoding it reads.  JavaScript's bit operators work on 32-bit integers; *)
(* `value` enters the code only through `& 0x1` and `>>> 1`, so it is kept *)
(* modulo 2^32, as two 16-bit halves [hi, lo].  An integer of the sequence *)
(* is [neg, hi, lo] with magnitude hi * 2^16 + lo.  The variable `unit`    *)
(* holds the integers, `known` the segment text, `functions` the state of  *)
(* the loop of parseSegment.                                               *)
(***************************************************************************)
MaxFields == 2

Half == 256 * 256

Integer(neg, hi, lo) == [neg |-> neg, hi |-> hi, lo |-> lo]

\* magnitudes 0, 1, 15, 16, 2^30 - 1, 2^30, 2^31 - 1, 2^31 and 2^34
SampleIntegers ==
  { Integer(FALSE, 0, 0), Integer(FALSE, 262144, 0) }
    \cup { Integer(neg, m[1], m[2]) :
             neg \in BOOLEAN,
             m \in { <<0, 1>>, <<0, 15>>, <<0, 16>>, <<16383, 65535>>, <<16384, 0>>,
                     <<32767, 65535>>, <<32768, 0>> } }

FieldLists == UNION { [1..n -> SampleIntegers] : n \in 0..MaxFields }

BASE_64 ==
  << "A", "B", "C", "D", "E", "F", "G", "H", "I", "J", "K", "L", "M",
     "N", "O", "P", "Q", "R", "S", "T", "U", "V", "W", "X", "Y", "Z",
     "a", "b", "c", "d", "e", "f", "g", "h", "i", "j", "k", "l", "m",
     "n", "o", "p", "q", "r", "s", "t", "u", "v", "w", "x", "y", "z",
     "0", "1", "2", "3", "4", "5", "6", "7", "8", "9", "+", "/" >>

BASE_64_get(c) == (CHOOSE i \in 1..64 : BASE_64[i] = c) - 1

\* The digits of a VLQ, lowest five bits first, bit 5 set on all but the last.
RECURSIVE VlqDigits(_, _)
VlqDigits(hi, lo) ==
  IF hi \div 32 = 0 /\ (lo \div 32) + (hi % 32) * 2048 = 0
    THEN << BASE_64[(lo % 32) + 1] >>
    ELSE << BASE_64[(lo % 32) + 32 + 1] >>
           \o VlqDigits(hi \div 32, (lo \div 32) + (hi % 32) * 2048)

\* The sign goes to the lowest bit, the magnitude above it.
EncodeVlq(n) ==
  VlqDigits(2 * n.hi + (2 * n.lo + (IF n.neg THEN 1 ELSE 0)) \div Half,
            (2 * n.lo + (IF n.neg THEN 1 ELSE 0)) % Half)

RECURSIVE EncodeSegment(_)
EncodeSegment(fields) ==
  IF fields = <<>> THEN <<>> ELSE EncodeVlq(Head(fields)) \o EncodeSegment(Tail(fields))

\* (d << nBits): the shift count is taken modulo 32, the result modulo 2^32
ShiftLeft(d, nBits) ==
  IF nBits % 32 < 16
    THEN [hi |-> ((d * 2^(nBits % 32)) \div Half) % Half, lo |-> (d * 2^(nBits % 32)) % Half]
    ELSE [hi |-> (d * 2^((nBits % 32) - 16)) % Half, lo |-> 0]

Add32(a, b) ==
  [hi |-> (a.hi + b.hi + (a.lo + b.lo) \div Half) % Half, lo |-> (a.lo + b.lo) % Half]

\* value >>> 1, below 2^31
UnsignedShift(value) ==
  (value.hi \div 2) * Half + (value.lo \div 2) + (value.hi % 2) * 32768

\* sign * (value >> 1), with the signed shift
parseSegment_field_signed(value) ==
  IF value.hi < 32768
    THEN Integer(value.lo % 2 = 1 /\ UnsignedShift(value) # 0,
                 UnsignedShift(value) \div Half, UnsignedShift(value) % Half)
    ELSE Integer(value.lo % 2 = 0,
                 ((32768 - value.hi \div 2) * Half
                    - ((value.lo \div 2) + (value.hi % 2) * 32768)) \div Half,
                 ((32768 - value.hi \div 2) * Half
                    - ((value.lo \div 2) + (value.hi % 2) * 32768)) % Half)

\* sign * (value >>> 1); the number -0 is the integer 0
parseSegment_field(value) ==
  Integer(value.lo % 2 = 1 /\ UnsignedShift(value) # 0,
          UnsignedShift(value) \div Half, UnsignedShift(value) % Half)

\* One turn of the loop `for (const c of segment)`.
parseSegment_digit(loop, data) ==
  IF (data \div 32) % 2 = 0
    THEN [nBits |-> 0, value |-> [hi |-> 0, lo |-> 0],
          fields |-> Append(loop.fields,
                            parseSegment_field(Add32(loop.value,
                                                     ShiftLeft(data % 32, loop.nBits))))]
    ELSE [nBits |-> loop.nBits + 5,
          value |-> Add32(loop.value, ShiftLeft(data % 32, loop.nBits)),
          fields |-> loop.fields]

UnchangedV ==
  UNCHANGED <<whitelist, heap, mapObjectToProxy, externals, exc, outcome, thrown, last,
              nHost, blacklist, whitelistAdd, GLOBALS>>

InitV ==
  /\ unit \in FieldLists
  /\ known = <<>>
  /\ functions = [nBits |-> 0, value |-> [hi |-> 0, lo |-> 0], fields |-> <<>>]
  /\ phase = "fields"
  /\ nOps = 0
  /\ whitelist = DefaultWhitelist /\ heap = InitHeap
  /\ mapObjectToProxy = [v \in {} |-> Undefined]
  /\ externals = <<>> /\ exc = NoExc /\ outcome = NoOutcome /\ thrown = {}
  /\ last = Plain("parseSegment", "")
  /\ nHost = 0
  /\ blacklist = {} /\ whitelistAdd = "native" /\ GLOBALS = {}

Encode ==
  /\ phase = "fields"
  /\ known' = EncodeSegment(unit)
  /\ phase' = "segment"
  /\ UNCHANGED <<unit, functions, nOps>> /\ UnchangedV

ParseDigit ==
  /\ phase = "segment"
  /\ nOps < Len(known)
  /\ functions' = parseSegment_digit(functions, BASE_64_get(known[nOps + 1]))
  /\ nOps' = nOps + 1
  /\ UNCHANGED <<unit, known, phase>> /\ UnchangedV

ParseReturn ==
  /\ phase = "segment"
  /\ nOps = Len(known)
  /\ phase' = "parsed"
  /\ UNCHANGED <<unit, known, functions, nOps>> /\ UnchangedV

NextV == Encode \/ ParseDigit \/ ParseReturn

SpecV == InitV /\ [][NextV]_vars

\* C25 as stated: whatever the integers, parseSegment returns the sequence
\* that was encoded.
C25_AsStated ==
  phase = "parsed" => functions.fields = unit

\* C25, for magnitudes below 2^31: parseSegment returns the integers that
\* were encoded, in their order and number.
C25_RoundTrip ==
  (phase = "parsed" /\ \A i \in 1..Len(unit) : unit[i].hi < 32768) =>
    functions.fields = unit

C25_Witness ==
  /\ phase = "parsed"
  /\ Len(unit) = 2
  /\ unit[1] = Integer(TRUE, 32767, 65535)
  /\ unit[2] = Integer(FALSE, 0, 16)
  /\ functions.fields = unit


(***************************************************************************)
(* The SourceMap constructor step by step (src/src/SourceMap.js 133-166),  *)
(* then locate and patchStackTrace on the decoded groups.  The mappings    *)
(* text is a sequence of tokens: a segment, already parsed into its        *)
(* fields, or the ";" between two lines.  The variable `unit` holds the    *)
(* map, `functions` the variables of the constructor, `known` _groups.     *)
(***************************************************************************)
MaxTokens == 4

SegmentToken(fields) == [brk |-> FALSE, fields |-> fields]

LineBreak == [brk |-> TRUE, fields |-> <<>>]

Tokens ==
  { LineBreak, SegmentToken(<<2>>), SegmentToken(<<4, 1>>),
    SegmentToken(<<0, 0, 1, 2>>), SegmentToken(<<3, 1, 1, 0 - 1, 1>>) }

SourceMaps ==
  { [tokens |-> t, sources |-> <<"a.js", "b.js", "c.js">>, names |-> <<"f", "g", "h">>] :
      t \in UNION { [1..n -> Tokens] : n \in 0..MaxTokens } }

\* mappings.split(';'), each group then split(','): a group without text is
\* one segment without fields
RECURSIVE SplitGroups(_, _)
SplitGroups(tokens, group) ==
  IF tokens = <<>> THEN << SegmentsOf(group) >>
  ELSE IF Head(tokens).brk THEN << SegmentsOf(group) >> \o SplitGroups(Tail(tokens), <<>>)
  ELSE SplitGroups(Tail(tokens), Append(group, Head(tokens).fields))

Element(array, index) ==
  IF index # Null /\ index + 1 \in 1..Len(array) THEN array[index + 1] ELSE "undefined"

\* the fields taken as positions instead of deltas
constructor_sums_absolute(c, fields) ==
  [c EXCEPT
     !.namesIndex   = IF Len(fields) = 5 THEN fields[5] ELSE @,
     !.sourceColumn = IF Len(fields) \in 4..5 THEN fields[4] ELSE @,
     !.sourceLine   = IF Len(fields) \in 3..5 THEN fields[3] ELSE @,
     !.sourcesIndex = IF Len(fields) \in 2..5 THEN fields[2] ELSE @,
     !.startColumn  = IF Len(fields) \in 1..5 THEN fields[1] ELSE @]

\* the switch on fields.length, with its fall-through
constructor_sums(c, fields) ==
  [c EXCEPT
     !.namesIndex   = IF Len(fields) = 5 THEN Num(@) + fields[5] ELSE @,
     !.sourceColumn = IF Len(fields) \in 4..5 THEN Num(@) + fields[4] ELSE @,
     !.sourceLine   = IF Len(fields) \in 3..5 THEN Num(@) + fields[3] ELSE @,
     !.sourcesIndex = IF Len(fields) \in 2..5 THEN Num(@) + fields[2] ELSE @,
     !.startColumn  = IF Len(fields) \in 1..5 THEN Num(@) + fields[1] ELSE @]

constructor_segment(c, map) ==
  [startColumn |-> c.startColumn,
   source |-> Element(map.sources, c.sourcesIndex),
   sourceLine |-> c.sourceLine,
   sourceColumn |-> c.sourceColumn,
   name |-> Element(map.names, c.namesIndex)]

\* group.sort((a, b) => a.startColumn >= b.startColumn ? -1 : 1): some
\* arrangement by decreasing starting column
Sorted(group) ==
  { [i \in 1..Len(group) |-> group[pi[i]]] :
      pi \in { f \in [1..Len(group) -> 1..Len(group)] :
                 /\ \A i, j \in 1..Len(group) : f[i] = f[j] => i = j
                 /\ \A i, j \in 1..Len(group) :
                      i < j => Num(group[f[i]].startColumn) >= Num(group[f[j]].startColumn) } }

UnchangedD ==
  UNCHANGED <<whitelist, heap, mapObjectToProxy, externals, exc, outcome, thrown,
              nOps, nHost, blacklist, whitelistAdd, GLOBALS>>

InitD ==
  /\ unit \in SourceMaps
  /\ functions = [sourcesIndex |-> Null, sourceLine |-> Null, sourceColumn |-> Null,
                  namesIndex |-> Null, startColumn |-> Null, g |-> 1, group |-> <<>>]
  /\ known = <<>>
  /\ phase = "constructing"
  /\ last = [op |-> "new"]
  /\ nOps = 0
  /\ whitelist = DefaultWhitelist /\ heap = InitHeap
  /\ mapObjectToProxy = [v \in {} |-> Undefined]
  /\ externals = <<>> /\ exc = NoExc /\ outcome = NoOutcome /\ thrown = {}
  /\ nHost = 0
  /\ blacklist = {} /\ whitelistAdd = "native" /\ GLOBALS = {}

\* the callback of group.split(',').map
MapSegment ==
  /\ phase = "constructing"
  /\ functions.g <= Len(SplitGroups(unit.tokens, <<>>))
  /\ Len(functions.group) < Len(SplitGroups(unit.tokens, <<>>)[functions.g])
  /\ functions' =
       [constructor_sums(functions,
          SplitGroups(unit.tokens, <<>>)[functions.g][Len(functions.group) + 1])
        EXCEPT !.group = Append(@,
          constructor_segment(
            constructor_sums(functions,
              SplitGroups(unit.tokens, <<>>)[functions.g][Len(functions.group) + 1]),
            unit))]
  /\ UNCHANGED <<unit, known, phase, last>> /\ UnchangedD

\* this._groups.push(...), then every group is sorted
PushGroup ==
  /\ phase = "constructing"
  /\ functions.g <= Len(SplitGroups(unit.tokens, <<>>))
  /\ Len(functions.group) = Len(SplitGroups(unit.tokens, <<>>)[functions.g])
  /\ known' \in { G \in [1..(Len(known) + 1) ->
                          UNION { Sorted(h) : h \in {known[i] : i \in 1..Len(known)}
                                                     \cup {functions.group} }] :
                   \A i \in 1..(Len(known) + 1) :
                     G[i] \in Sorted(Append(known, functions.group)[i]) }
  /\ functions' = [functions EXCEPT !.g = @ + 1, !.group = <<>>, !.startColumn = Null]
  /\ UNCHANGED <<unit, phase, last>> /\ UnchangedD

Constructed_map ==
  /\ phase = "constructing"
  /\ functions.g > Len(SplitGroups(unit.tokens, <<>>))
  /\ phase' = "constructed"
  /\ UNCHANGED <<unit, functions, known, last>> /\ UnchangedD

Locate(line, column) ==
  /\ phase = "constructed"
  /\ last' = [op |-> "locate", line |-> line, column |-> column,
              location |-> locate(known, line, column)]
  /\ UNCHANGED <<unit, functions, known, phase>> /\ UnchangedD

\* A line of a Firefox trace that names a position in the generated code
FirefoxFrame(l, c) == [eval |-> FALSE, source |-> "Function", line |-> l, column |-> c]

\* SourceMap.patchFirefox(frame)
patchFirefox(groups, frame) ==
  IF ~frame.eval /\ frame.source = "Function" /\ locate(groups, frame.line - 1, frame.column).found
    THEN [eval |-> FALSE,
          source |-> locate(groups, frame.line - 1, frame.column).source,
          line |-> Num(locate(groups, frame.line - 1, frame.column).sourceLine) + 1,
          column |-> Num(locate(groups, frame.line - 1, frame.column).sourceColumn)]
    ELSE frame

Frames ==
  {OtherFrame}
    \cup {EvalFrame(l, c) : l \in 1..2, c \in {1, 4}}
    \cup {FirefoxFrame(l, 4) : l \in 1..2}

Traces == {<<f>> : f \in Frames} \cup {<<OtherFrame, f>> : f \in Frames}

\* trace.split('\n').map(patchV8).map(patchFirefox).join('\n')
PatchTrace(trace) ==
  /\ phase = "constructed"
  /\ last' = [op |-> "patch", trace |-> trace,
              out |-> [i \in 1..Len(trace) |-> patchFirefox(known, patchV8(known, trace[i]))]]
  /\ UNCHANGED <<unit, functions, known, phase>> /\ UnchangedD

NextD ==
  \/ MapSegment
  \/ PushGroup
  \/ Constructed_map
  \/ \E line \in 0..2, column \in 0..MaxColumn : Locate(line, column)
  \/ \E trace \in Traces : PatchTrace(trace)

SpecD == InitD /\ [][NextD]_vars

\* The positions of the table, in table order, up to segment s of line g,
\* whose segment has a field k; for the starting column those of line g only.
Supplying(groups, g, s, k) ==
  { pos \in {<<h, t>> : h \in 1..g, t \in 1..MaxTokens + 1} :
      /\ pos[2] <= Len(groups[pos[1]])
      /\ pos[1] < g \/ pos[2] <= s
      /\ k = 1 => pos[1] = g
      /\ Len(groups[pos[1]][pos[2]]) >= k }

RECURSIVE SumOfDeltas(_, _, _)
SumOfDeltas(groups, P, k) ==
  IF P = {} THEN 0
  ELSE groups[(CHOOSE pos \in P : TRUE)[1]][(CHOOSE pos \in P : TRUE)[2]][k]
         + SumOfDeltas(groups, P \ {CHOOSE pos \in P : TRUE}, k)

\* A field that no segment has supplied so far has no value.
RunningSum(groups, g, s, k) ==
  IF Supplying(groups, g, s, k) = {} THEN Null
  ELSE SumOfDeltas(groups, Supplying(groups, g, s, k), k)

ExpectedSegment(map, g, s) ==
  [startColumn |-> RunningSum(SplitGroups(map.tokens, <<>>), g, s, 1),
   source |-> Element(map.sources, RunningSum(SplitGroups(map.tokens, <<>>), g, s, 2)),
   sourceLine |-> RunningSum(SplitGroups(map.tokens, <<>>), g, s, 3),
   sourceColumn |-> RunningSum(SplitGroups(map.tokens, <<>>), g, s, 4),
   name |-> Element(map.names, RunningSum(SplitGroups(map.tokens, <<>>), g, s, 5))]

\* C26: every decoded segment carries the running sums of the deltas in table
\* order, the starting column summed within its line, the other fields over
\* the whole table, a missing field leaving its sum as it was; the decoded
\* line holds exactly the segments of the line.
C26_RunningSums ==
  /\ \A s \in 1..Len(functions.group) :
       functions.group[s] = ExpectedSegment(unit, functions.g, s)
  /\ \A g \in 1..Len(known) :
       /\ Len(known[g]) = Len(SplitGroups(unit.tokens, <<>>)[g])
       /\ \A i \in 1..Len(known[g]) :
            Cardinality({j \in 1..Len(known[g]) : known[g][j] = known[g][i]})
              = Cardinality({s \in 1..Len(known[g]) :
                               ExpectedSegment(unit, g, s) = known[g][i]})

C26_Witness ==
  /\ phase = "constructed"
  /\ unit.tokens = << SegmentToken(<<3, 1, 1, 0 - 1, 1>>), SegmentToken(<<0, 0, 1, 2>>),
                      LineBreak, SegmentToken(<<2>>) >>
  /\ known[1][1].sourceLine = 2 /\ known[1][1].startColumn = 3
  /\ known[2] = << [startColumn |-> 2, source |-> "b.js", sourceLine |-> 2,
                     sourceColumn |-> 1, name |-> "g"] >>

\* The line of the table has text: it is not an empty group.
HasMapping(map, line) ==
  \E i \in 1..Len(map.tokens) :
    /\ ~map.tokens[i].brk
    /\ Cardinality({j \in 1..(i - 1) : map.tokens[j].brk}) = line

Candidates(map, groups, line, column) ==
  IF HasMapping(map, line)
    THEN {i \in 1..Len(groups[line + 1]) : Num(groups[line + 1][i].startColumn) <= column}
    ELSE {}

\* C27: locate returns a segment of the line with the greatest starting
\* column that is at most the column, and nothing when the line has no such
\* segment: no mapping at all (an empty group, a line past the end) or only
\* segments that start after the column.
C27_Locate ==
  (phase = "constructed" /\ last.op = "locate") =>
    IF Candidates(unit, known, last.line, last.column) = {}
      THEN ~last.location.found
      ELSE /\ last.location.found
           /\ \E i \in Candidates(unit, known, last.line, last.column) :
                /\ [n \in DOMAIN known[last.line + 1][i] |-> last.location[n]]
                     = known[last.line + 1][i]
                /\ \A j \in Candidates(unit, known, last.line, last.column) :
                     Num(known[last.line + 1][j].startColumn)
                       <= Num(known[last.line + 1][i].startColumn)

GeneratedFrame(frame) == frame.source \in {"anonymous", "Function"}

\* C28: each line of the trace on its own: a frame of the generated code
\* whose position locate finds names the original source, the original line
\* and the original column, both counted from 1; any other line is returned
\* as it is; the lines keep their number and order.
C28_PatchStackTrace ==
  (phase = "constructed" /\ last.op = "patch") =>
    /\ Len(last.out) = Len(last.trace)
    /\ \A i \in 1..Len(last.trace) :
         IF /\ GeneratedFrame(last.trace[i])
            /\ locate(known, last.trace[i].line - 1, last.trace[i].column).found
           THEN /\ last.out[i].source
                     = locate(known, last.trace[i].line - 1, last.trace[i].column).source
                /\ last.out[i].line
                     = Num(locate(known, last.trace[i].line - 1, last.trace[i].column).sourceLine) + 1
                /\ last.out[i].column
                     = Num(locate(known, last.trace[i].line - 1,
                                  last.trace[i].column).sourceColumn) + 1
           ELSE last.out[i] = last.trace[i]

\* --------------------------------------------------- wrap applied twice (A)

WrapCheckpoints == {"wrap", "external", "literal"}

\* C30: when a wrap checkpoint has returned w, the wrap of w returns w again
\* and does not fail; in the registry every wrapper is mapped to itself, and
\* no wrapper is the target of another wrapper.
C30_WrapIdempotent ==
  [][(last'.op \in WrapCheckpoints /\ last'.err = "none" /\ nOps' = nOps + 1) =>
       /\ Execution_maybeWrap(last'.ret, FALSE,
             [map |-> mapObjectToProxy', fns |-> functions', heap |-> heap']).err = "none"
       /\ Execution_maybeWrap(last'.ret, FALSE,
             [map |-> mapObjectToProxy', fns |-> functions', heap |-> heap']).ret = last'.ret
       /\ Execution_maybeWrap(last'.ret, FALSE,
             [map |-> mapObjectToProxy', fns |-> functions', heap |-> heap']).st
            = [map |-> mapObjectToProxy', fns |-> functions', heap |-> heap']
       /\ \A x \in DOMAIN mapObjectToProxy' :
            /\ IsProxy(mapObjectToProxy'[x])
            /\ mapObjectToProxy'[x] \in DOMAIN mapObjectToProxy'
            /\ mapObjectToProxy'[mapObjectToProxy'[x]] = mapObjectToProxy'[x]
            /\ ~IsProxy(Target(mapObjectToProxy'[x]))]_vars

C30_Witness ==
  /\ last.op = "wrap" /\ last.err = "none"
  /\ IsProxy(last.arg) /\ last.ret = last.arg
  /\ TypeofFunction(Target(last.arg), heap)
  /\ mapObjectToProxy[last.arg] = last.arg

====
